---- MODULE Spec2Model ----
(***************************************************************************)
(* TrendRadar: the trend aggregation engine.                               *)
(*                                                                         *)
(* The day's snapshot directory (output/<date>/txt) is the only durable    *)
(* state.  Every run of the analyzer rebuilds the merged identity tables   *)
(* (read_all_today_titles / process_source_data) and the novelty mapping   *)
(* (detect_latest_new_titles) from the snapshot files, then classifies the *)
(* titles against the keyword rules (matches_word_groups /                 *)
(* count_word_frequency).                                                  *)
(***************************************************************************)
EXTENDS Integers, Sequences, FiniteSets, TLC

VARIABLES
    files,                 \* today's parsed snapshot files, oldest first
    current_platform_ids,  \* the configured platform allow-list
    all_results,           \* read_all_today_titles: source -> title -> observation
    title_info,            \* read_all_today_titles: source -> title -> identity
    new_titles,            \* detect_latest_new_titles: source -> title -> observation
    word_groups,           \* load_frequency_words: the ordered keyword groups
    filter_words,          \* load_frequency_words: the global filter words
    results,               \* the table handed to count_word_frequency
    report_mode,           \* CONFIG.REPORT_MODE
    config,                \* CONFIG: MAX_NEWS_PER_KEYWORD, SORT_BY_POSITION_FIRST
    stats,                 \* count_word_frequency: the GroupStat list
    total_titles,          \* count_word_frequency: total_titles_processed
    summary_stats,         \* the GroupStat list of the run's summary report
    summary_total,         \* total_titles_processed of the summary report
    scored,                \* the title records handed to calculate_news_weight
    weights,               \* calculate_news_weight: the weight of each record
    id_to_name,            \* crawl_websites: source id -> display name
    written,               \* save_titles_to_file: the lines of the snapshot file
    parsed,                \* parse_file_titles: [titles_by_id, id_to_name]
    txt_dir,               \* the text of the day's snapshot files, oldest first
    frequency_file,        \* the lines of the frequency words file
    run_config,            \* CONFIG as NewsAnalyzer.run read it
    raised,                \* the exception NewsAnalyzer.run ended with, "" for none
    sends,                 \* the send_to_notifications calls of the run, in order
    weight_config,         \* CONFIG["WEIGHT_CONFIG"], in thousandths
    record_dir,            \* output/.push_records: the days that have a push record
    beijing_day,           \* the day get_beijing_time gives
    manager_ready          \* a PushRecordManager was constructed this day

vars == <<files, current_platform_ids, all_results, title_info, new_titles,
          word_groups, filter_words, results, report_mode, config, stats,
          total_titles, summary_stats, summary_total, scored, weights,
          id_to_name, written, parsed, txt_dir, frequency_file, run_config, raised, sends,
          weight_config, record_dir, beijing_day, manager_ready>>

mergerVars == <<files, current_platform_ids, all_results, title_info, new_titles>>
rulesVars == <<word_groups, filter_words, report_mode, config, frequency_file>>
matcherVars == <<results, stats, total_titles>>
summaryVars == <<summary_stats, summary_total>>
scorerVars == <<scored, weights>>
codecVars == <<id_to_name, written, parsed, txt_dir>>
pushVars == <<record_dir, beijing_day, manager_ready>>
runVars == <<run_config, raised, sends, weight_config, pushVars>>

(***************************************************************************)
(* Bounds and input domains.                                               *)
(***************************************************************************)
MaxFiles == 3   \* snapshot files in the day's directory
MaxLines == 4   \* title lines in the day's directory, over all its files
MaxGroups == 2  \* keyword groups of the frequency words file

Sources == {"A", "B"}
Titles == {"x", "y"}
Ranks == {1, 2}
Urls == {"", "u1", "u2"}
MobileUrls == {"", "m1", "m2"}
PlatformConfigs == {{"A"}, {"A", "B"}}

EmptyMap == <<>>

\* The set of all maps (Python dicts) from a subset of Keys to Vals.
Maps(Keys, Vals) == UNION {[K -> Vals] : K \in SUBSET Keys}

\* Number of observation lines of a parsed snapshot.
RECURSIVE SumOver(_, _)
SumOver(S, f) ==
    IF S = {} THEN 0
    ELSE LET s == CHOOSE s \in S : TRUE
         IN Cardinality(DOMAIN f[s]) + SumOver(S \ {s}, f)

LineCount(snap) == SumOver(DOMAIN snap, snap)

RECURSIVE DayLines(_)
DayLines(fs) == IF fs = <<>> THEN 0 ELSE LineCount(Head(fs)) + DayLines(Tail(fs))

(***************************************************************************)
(* process_source_data: fold one source block of one snapshot into the     *)
(* merged tables.                                                          *)
(***************************************************************************)

\* A merge that forgets the `rank not in merged_ranks` test.
MergeRanks_NoMembershipTest(existing_ranks, ranks) == existing_ranks \o ranks

\* A merge that puts the new ranks in front of the existing ones.
MergeRanks_Prepend(existing_ranks, ranks) ==
    SelectSeq(ranks, LAMBDA r : \A i \in 1..Len(existing_ranks) : existing_ranks[i] # r)
        \o existing_ranks

\* lines 291-294: copy the existing ranks, append each new rank not yet present
RECURSIVE MergeRanks(_, _)
MergeRanks(existing_ranks, ranks) ==
    IF ranks = <<>> THEN existing_ranks
    ELSE LET rank == Head(ranks)
             merged == IF \E i \in 1..Len(existing_ranks) : existing_ranks[i] = rank
                       THEN existing_ranks
                       ELSE Append(existing_ranks, rank)
         IN MergeRanks(merged, Tail(ranks))

\* An `or` with its operands swapped: the later observation wins.
StrOr_LatestWins(a, b) == IF b # "" THEN b ELSE a

\* Python's `a or b` on strings
StrOr(a, b) == IF a # "" THEN a ELSE b

\* lines 257-264 and 277-284
NewInfo(data, time_info) ==
    [first_time |-> time_info, last_time |-> time_info, count |-> 1,
     ranks |-> data.ranks, url |-> data.url, mobileUrl |-> data.mobileUrl]

\* lines 296-300
MergedResult(existing_data, data) ==
    [ranks |-> MergeRanks(existing_data.ranks, data.ranks),
     url |-> StrOr(existing_data.url, data.url),
     mobileUrl |-> StrOr(existing_data.mobileUrl, data.mobileUrl)]

\* An identity merge that counts one occurrence per rank of the observation
\* that is new to the identity.
MergedInfo_CountNewRanks(info, existing_data, data, time_info) ==
    [first_time |-> info.first_time,
     last_time |-> time_info,
     count |-> info.count
                 + (Len(MergeRanks(existing_data.ranks, data.ranks)) - Len(existing_data.ranks)),
     ranks |-> MergeRanks(existing_data.ranks, data.ranks),
     url |-> IF info.url = "" THEN data.url ELSE info.url,
     mobileUrl |-> IF info.mobileUrl = "" THEN data.mobileUrl ELSE info.mobileUrl]

\* lines 302-308
MergedInfo(info, existing_data, data, time_info) ==
    [first_time |-> info.first_time,
     last_time |-> time_info,
     count |-> info.count + 1,
     ranks |-> MergeRanks(existing_data.ranks, data.ranks),
     url |-> IF info.url = "" THEN data.url ELSE info.url,
     mobileUrl |-> IF info.mobileUrl = "" THEN data.mobileUrl ELSE info.mobileUrl]

\* tabs is the pair of tables [all_results, title_info]
process_source_data(source_id, title_data, time_info, tabs) ==
    LET ar == tabs.all_results
        ti == tabs.title_info
    IN IF source_id \notin DOMAIN ar
       THEN LET old == IF source_id \in DOMAIN ti THEN ti[source_id] ELSE EmptyMap
                infos == [t \in DOMAIN old \cup DOMAIN title_data |->
                            IF t \in DOMAIN title_data
                            THEN NewInfo(title_data[t], time_info)
                            ELSE old[t]]
            IN [all_results |-> (source_id :> title_data) @@ ar,
                title_info |-> (source_id :> infos) @@ ti]
       ELSE LET olda == ar[source_id]
                oldi == ti[source_id]
                newa == [t \in DOMAIN olda \cup DOMAIN title_data |->
                           IF t \notin DOMAIN title_data THEN olda[t]
                           ELSE IF t \notin DOMAIN olda
                           THEN [ranks |-> title_data[t].ranks,
                                 url |-> title_data[t].url,
                                 mobileUrl |-> title_data[t].mobileUrl]
                           ELSE MergedResult(olda[t], title_data[t])]
                newi == [t \in DOMAIN oldi \cup DOMAIN title_data |->
                           IF t \notin DOMAIN title_data THEN oldi[t]
                           ELSE IF t \notin DOMAIN olda
                           THEN NewInfo(title_data[t], time_info)
                           ELSE MergedInfo(oldi[t], olda[t], title_data[t], time_info)]
            IN [all_results |-> (source_id :> newa) @@ ar,
                title_info |-> (source_id :> newi) @@ ti]

(***************************************************************************)
(* read_all_today_titles: fold the day's files, oldest first.              *)
(***************************************************************************)

\* lines 215-226: keep only the sources of the allow-list
FilterPlatforms(titles_by_id, platform_ids) ==
    [s \in {s \in DOMAIN titles_by_id : s \in platform_ids} |-> titles_by_id[s]]

\* lines 230-233: one process_source_data call per source of the file
RECURSIVE FoldSources(_, _, _, _)
FoldSources(todo, titles_by_id, time_info, tabs) ==
    IF todo = {} THEN tabs
    ELSE LET source_id == CHOOSE s \in todo : TRUE
         IN FoldSources(todo \ {source_id}, titles_by_id, time_info,
                        process_source_data(source_id, titles_by_id[source_id],
                                            time_info, tabs))

RECURSIVE FoldFiles(_, _, _, _)
FoldFiles(fs, idx, platform_ids, tabs) ==
    IF idx > Len(fs) THEN tabs
    ELSE LET titles_by_id == FilterPlatforms(fs[idx], platform_ids)
         IN FoldFiles(fs, idx + 1, platform_ids,
                      FoldSources(DOMAIN titles_by_id, titles_by_id, idx, tabs))

read_all_today_titles(fs, platform_ids) ==
    FoldFiles(fs, 1, platform_ids, [all_results |-> EmptyMap, title_info |-> EmptyMap])

(***************************************************************************)
(* detect_latest_new_titles                                                *)
(***************************************************************************)
\* lines 322-366: the newest file against the union of the older files' titles
NewAgainstHistory(fs, platform_ids) ==
    LET latest_titles == FilterPlatforms(fs[Len(fs)], platform_ids)
        historical_titles(source_id) ==
            UNION {DOMAIN FilterPlatforms(fs[i], platform_ids)[source_id] :
                     i \in {j \in 1..(Len(fs) - 1) :
                              source_id \in DOMAIN FilterPlatforms(fs[j], platform_ids)}}
        source_new_titles(source_id) ==
            [t \in {t \in DOMAIN latest_titles[source_id] :
                      t \notin historical_titles(source_id)} |->
                latest_titles[source_id][t]]
    IN [s \in {s \in DOMAIN latest_titles : DOMAIN source_new_titles(s) # {}} |->
           source_new_titles(s)]

\* A detector that compares the newest file with the previous file only.
NewAgainstPrevious(fs, platform_ids) ==
    IF Len(fs) < 2 THEN EmptyMap
    ELSE NewAgainstHistory(SubSeq(fs, Len(fs) - 1, Len(fs)), platform_ids)

\* A detector without the two-file guard.
NewWithoutGuard(fs, platform_ids) ==
    IF Len(fs) < 1 THEN EmptyMap ELSE NewAgainstHistory(fs, platform_ids)

detect_latest_new_titles(fs, platform_ids) ==
    IF Len(fs) < 2 THEN EmptyMap ELSE NewAgainstHistory(fs, platform_ids)

(***************************************************************************)
(* Text.  A title or a keyword is a sequence of characters; str.lower() and *)
(* the `in` substring test are modelled on it.                             *)
(***************************************************************************)
LowerChar(c) == IF c = "A" THEN "a" ELSE IF c = "B" THEN "b" ELSE c

lower(str) == [i \in 1..Len(str) |-> LowerChar(str[i])]

\* Python's `word in text`
IsSubstring(word, text) ==
    \E i \in 0..(Len(text) - Len(word)) : SubSeq(text, i + 1, i + Len(word)) = word

\* `not title.strip()`
IsBlank(title) == \A i \in 1..Len(title) : title[i] = " "

\* " ".join(words)
RECURSIVE Join(_)
Join(words) ==
    IF words = <<>> THEN <<>>
    ELSE IF Len(words) = 1 THEN words[1]
    ELSE words[1] \o <<" ">> \o Join(Tail(words))

(***************************************************************************)
(* matches_word_groups                                                     *)
(***************************************************************************)

\* A required-word test that is satisfied by any one of the required words.
RequiredPresent_Any(required_words, title_lower) ==
    \E i \in 1..Len(required_words) : IsSubstring(lower(required_words[i]), title_lower)

\* lines 67-72 and 270-276
RequiredPresent(required_words, title_lower) ==
    \A i \in 1..Len(required_words) : IsSubstring(lower(required_words[i]), title_lower)

\* lines 75-80 and 278-284
NormalPresent(normal_words, title_lower) ==
    \E i \in 1..Len(normal_words) : IsSubstring(lower(normal_words[i]), title_lower)

\* One pass of the group loop: FALSE is `continue`.
GroupMatches(group, title_lower) ==
    /\ (group.required # <<>> => RequiredPresent(group.required, title_lower))
    /\ (group.normal # <<>> => NormalPresent(group.normal, title_lower))

\* A filter test that compares the filter word with the title as written.
IsFiltered_CaseSensitive(title, filters) ==
    \E i \in 1..Len(filters) : IsSubstring(filters[i], title)

\* line 58
IsFiltered(title, filters) ==
    \E i \in 1..Len(filters) : IsSubstring(lower(filters[i]), lower(title))

matches_word_groups(title, groups, filters) ==
    IF IsBlank(title) THEN FALSE
    ELSE IF groups = <<>> THEN TRUE
    ELSE IF IsFiltered(title, filters) THEN FALSE
    ELSE \E i \in 1..Len(groups) : GroupMatches(groups[i], lower(title))

(***************************************************************************)
(* calculate_news_weight.  The three weights are kept in tenths and the     *)
(* weight of an item is the fraction WeightNum / Len(ranks), so that two    *)
(* weights are compared exactly.                                           *)
(***************************************************************************)
RANK_THRESHOLD == 5
RANK_WEIGHT == 6
FREQUENCY_WEIGHT == 3
HOTNESS_WEIGHT == 1

Min(a, b) == IF a <= b THEN a ELSE b

RECURSIVE SumSeq(_)
SumSeq(seq) == IF seq = <<>> THEN 0 ELSE Head(seq) + SumSeq(Tail(seq))

RECURSIVE MinSeq(_)
MinSeq(seq) == IF Len(seq) = 1 THEN seq[1] ELSE Min(Head(seq), MinSeq(Tail(seq)))

\* A rank score without the cap of the rank at 10.
WeightNum_NoRankCap(item, rank_threshold) ==
    LET ranks == item.ranks
        rank_scores == [i \in 1..Len(ranks) |-> 11 - ranks[i]]
        high_rank_count == Len(SelectSeq(ranks, LAMBDA r : r <= rank_threshold))
    IN SumSeq(rank_scores) * RANK_WEIGHT
       + Min(item.count, 10) * 10 * FREQUENCY_WEIGHT * Len(ranks)
       + high_rank_count * 100 * HOTNESS_WEIGHT

\* A hotness bonus that counts the ranks at or beyond the threshold.
WeightNum_HotAtLeast(item, rank_threshold) ==
    LET ranks == item.ranks
        rank_scores == [i \in 1..Len(ranks) |-> 11 - Min(ranks[i], 10)]
        high_rank_count == Len(SelectSeq(ranks, LAMBDA r : r >= rank_threshold))
    IN SumSeq(rank_scores) * RANK_WEIGHT
       + Min(item.count, 10) * 10 * FREQUENCY_WEIGHT * Len(ranks)
       + high_rank_count * 100 * HOTNESS_WEIGHT

\* lines 13-36: Len(ranks) times the weight, in tenths
WeightNum(item, rank_threshold) ==
    LET ranks == item.ranks
        rank_scores == [i \in 1..Len(ranks) |-> 11 - Min(ranks[i], 10)]
        high_rank_count == Len(SelectSeq(ranks, LAMBDA r : r <= rank_threshold))
    IN SumSeq(rank_scores) * RANK_WEIGHT
       + Min(item.count, 10) * 10 * FREQUENCY_WEIGHT * Len(ranks)
       + high_rank_count * 100 * HOTNESS_WEIGHT

\* lines 5-38: the weight, in tenths, as the fraction num / den; 0.0 for a
\* record without ranks
calculate_news_weight(title_data, rank_threshold) ==
    IF title_data.ranks = <<>> THEN [num |-> 0, den |-> 1]
    ELSE [num |-> WeightNum(title_data, rank_threshold), den |-> Len(title_data.ranks)]

\* calculate_news_weight(a) > calculate_news_weight(b)
WeightGreater(a, b, rank_threshold) ==
    LET wa == calculate_news_weight(a, rank_threshold)
        wb == calculate_news_weight(b, rank_threshold)
    IN wa.num * wb.den > wb.num * wa.den

(***************************************************************************)
(* count_word_frequency                                                    *)
(***************************************************************************)
ALL_NEWS_KEY == <<"*">>     \* the group key of the catch-all group

NoTime == 0                  \* the empty time label ""

\* line 152
CatchAllGroup ==
    [required |-> <<>>, normal |-> <<>>, group_key |-> ALL_NEWS_KEY, max_count |-> 0]

\* A dict is iterated in some fixed order of its keys.
RECURSIVE SetToSeq(_)
SetToSeq(S) ==
    IF S = {} THEN <<>>
    ELSE LET x == CHOOSE x \in S : TRUE IN <<x>> \o SetToSeq(S \ {x})

RECURSIVE Concat(_)
Concat(seqs) == IF seqs = <<>> THEN <<>> ELSE Head(seqs) \o Concat(Tail(seqs))

\* The (source, title) pairs of a table in iteration order (lines 226, 232).
TableEntries(table) ==
    LET srcs == SetToSeq(DOMAIN table)
    IN Concat([i \in 1..Len(srcs) |->
                 LET ts == SetToSeq(DOMAIN table[srcs[i]])
                 IN [j \in 1..Len(ts) |-> <<srcs[i], ts[j]>>]])

\* analyzer.py _prepare_current_title_info
PrepareCurrentTitleInfo(table, time_info) ==
    [s \in DOMAIN table |-> [t \in DOMAIN table[s] |-> NewInfo(table[s][t], time_info)]]

\* lines 170-176
LatestTime(info) ==
    LET times == UNION {{info[s][t].last_time : t \in DOMAIN info[s]} : s \in DOMAIN info}
                     \ {NoTime}
    IN IF times = {} THEN NoTime ELSE CHOOSE m \in times : \A x \in times : x <= m

\* lines 169-198: the titles of the table whose identity was last seen in the
\* latest batch; the whole table when no identity has a time
CurrentBatch(table, info) ==
    IF info # EmptyMap /\ LatestTime(info) # NoTime
    THEN LET latest_time == LatestTime(info)
             filtered_titles(s) ==
                 [t \in {t \in DOMAIN table[s] :
                           /\ t \in DOMAIN info[s]
                           /\ info[s][t].last_time = latest_time} |-> table[s][t]]
         IN [s \in {s \in DOMAIN table :
                      s \in DOMAIN info /\ DOMAIN filtered_titles(s) # {}} |->
                filtered_titles(s)]
    ELSE table

\* A daily mode that processes the new titles only.
ResultsToProcess_DailyNewOnly(table, info, new, mode, is_first_today) ==
    IF mode = "incremental" THEN (IF is_first_today THEN table ELSE new)
    ELSE IF mode = "current" THEN CurrentBatch(table, info)
    ELSE new

\* An incremental mode that processes the whole table on every run.
ResultsToProcess_IncrementalAll(table, info, new, mode, is_first_today) ==
    IF mode = "incremental" THEN table
    ELSE IF mode = "current" THEN CurrentBatch(table, info)
    ELSE table

\* A current mode that processes the whole day.
ResultsToProcess_CurrentAll(table, info, new, mode, is_first_today) ==
    IF mode = "incremental" THEN (IF is_first_today THEN table ELSE new)
    ELSE table

\* lines 158-203: the table the mode selects
ResultsToProcess(table, info, new, mode, is_first_today) ==
    IF mode = "incremental" THEN (IF is_first_today THEN table ELSE new)
    ELSE IF mode = "current" THEN CurrentBatch(table, info)
    ELSE table

\* lines 258-289: the index of the group the grouping loop stops at, 0 if none
IsAllNews(groups) == Len(groups) = 1 /\ groups[1].group_key = ALL_NEWS_KEY

\* A grouping loop that keeps the last matching group instead of breaking at
\* the first.
FirstGroup_Last(title, groups) ==
    IF IsAllNews(groups) THEN 1
    ELSE LET hits == {i \in 1..Len(groups) : GroupMatches(groups[i], lower(title))}
         IN IF hits = {} THEN 0 ELSE CHOOSE i \in hits : \A j \in hits : j <= i

FirstGroup(title, groups) ==
    IF IsAllNews(groups) THEN 1
    ELSE LET hits == {i \in 1..Len(groups) : GroupMatches(groups[i], lower(title))}
         IN IF hits = {} THEN 0 ELSE CHOOSE i \in hits : \A j \in hits : i <= j

\* A grouping step that skips the matches_word_groups gate.
AssignedGroup_NoGate(title, groups, filters) == FirstGroup(title, groups)

\* lines 237-242 then 258-289
AssignedGroup(title, groups, filters) ==
    IF matches_word_groups(title, groups, filters) THEN FirstGroup(title, groups) ELSE 0

\* line 87
format_time_display(first_time, last_time) ==
    IF first_time = NoTime THEN <<>>
    ELSE IF first_time = last_time \/ last_time = NoTime THEN <<first_time>>
    ELSE <<first_time, last_time>>

\* lines 291-358: the record appended for a matched title
MatchedItem(source_id, title, title_data, info, new, mode, all_news_are_new, rank_threshold) ==
    LET known == source_id \in DOMAIN info /\ title \in DOMAIN info[source_id]
        rec == info[source_id][title]
        first_time == IF known THEN rec.first_time ELSE NoTime
        last_time == IF known THEN rec.last_time ELSE NoTime
        ranks0 == IF known /\ rec.ranks # <<>> THEN rec.ranks ELSE title_data.ranks
    IN [title |-> title,
        source_name |-> source_id,
        first_time |-> first_time,
        last_time |-> last_time,
        time_display |-> format_time_display(first_time, last_time),
        count |-> IF known THEN rec.count ELSE 1,
        ranks |-> IF ranks0 = <<>> THEN <<99>> ELSE ranks0,
        rank_threshold |-> rank_threshold,
        url |-> IF known THEN rec.url ELSE title_data.url,
        mobileUrl |-> IF known THEN rec.mobileUrl ELSE title_data.mobileUrl,
        is_new |-> IF all_news_are_new THEN TRUE
                   ELSE IF source_id \in DOMAIN new THEN title \in DOMAIN new[source_id]
                   ELSE FALSE]

\* A sort key whose last component is the count, not the negated count.
SortsBefore_CountAscending(a, b, rank_threshold) ==
    \/ WeightGreater(a, b, rank_threshold)
    \/ /\ ~WeightGreater(b, a, rank_threshold)
       /\ \/ MinSeq(a.ranks) < MinSeq(b.ranks)
          \/ MinSeq(a.ranks) = MinSeq(b.ranks) /\ a.count < b.count

\* lines 431-438: a goes strictly before b in the sort order
SortsBefore(a, b, rank_threshold) ==
    \/ WeightGreater(a, b, rank_threshold)
    \/ /\ ~WeightGreater(b, a, rank_threshold)
       /\ \/ MinSeq(a.ranks) < MinSeq(b.ranks)
          \/ MinSeq(a.ranks) = MinSeq(b.ranks) /\ a.count > b.count

\* sorted() is stable: an item goes behind the items it does not sort before
RECURSIVE InsertItem(_, _, _)
InsertItem(sorted, item, rank_threshold) ==
    IF sorted = <<>> THEN <<item>>
    ELSE IF SortsBefore(item, Head(sorted), rank_threshold)
    THEN <<item>> \o sorted
    ELSE <<Head(sorted)>> \o InsertItem(Tail(sorted), item, rank_threshold)

RECURSIVE SortItems(_, _)
SortItems(items, rank_threshold) ==
    IF items = <<>> THEN <<>>
    ELSE InsertItem(SortItems(SubSeq(items, 1, Len(items) - 1), rank_threshold),
                    items[Len(items)], rank_threshold)

\* round(num / den, 0) as Python rounds: to the nearest, ties to even
RoundHalfEven(num, den) ==
    LET q == num \div den
        r == num % den
    IN IF 2 * r < den THEN q
       ELSE IF 2 * r > den THEN q + 1
       ELSE IF q % 2 = 0 THEN q ELSE q + 1

\* lines 463-469: a goes before b in the final order of the stats
StatBefore(a, b, by_position) ==
    IF by_position
    THEN a.position < b.position \/ (a.position = b.position /\ a.count > b.count)
    ELSE a.count > b.count \/ (a.count = b.count /\ a.position < b.position)

RECURSIVE InsertStat(_, _, _)
InsertStat(sorted, stat, by_position) ==
    IF sorted = <<>> THEN <<stat>>
    ELSE IF StatBefore(stat, Head(sorted), by_position)
    THEN <<stat>> \o sorted
    ELSE <<Head(sorted)>> \o InsertStat(Tail(sorted), stat, by_position)

RECURSIVE SortStats(_, _)
SortStats(list, by_position) ==
    IF list = <<>> THEN <<>>
    ELSE InsertStat(SortStats(SubSeq(list, 1, Len(list) - 1), by_position),
                    list[Len(list)], by_position)

\* The distinct group keys in the order of their first group (lines 222-224).
RECURSIVE GroupKeys(_)
GroupKeys(groups) ==
    IF groups = <<>> THEN <<>>
    ELSE LET rest == GroupKeys(SubSeq(groups, 1, Len(groups) - 1))
             key == groups[Len(groups)].group_key
         IN IF \E i \in 1..Len(rest) : rest[i] = key THEN rest ELSE Append(rest, key)

\* lines 418-423: a later group with the same key overwrites the entry
LastIndexOf(groups, key) ==
    CHOOSE i \in 1..Len(groups) :
        /\ groups[i].group_key = key
        /\ \A j \in 1..Len(groups) : groups[j].group_key = key => j <= i

\* A cap that prefers the global configuration to the group's own.
GroupMaxCount_GlobalFirst(own_max, global_max) ==
    IF global_max = 0 THEN own_max ELSE global_max

\* lines 441-444: the group's own max_count, or else the global one
GroupMaxCount(own_max, global_max) ==
    IF own_max = 0 THEN global_max ELSE own_max

\* lines 446-447
Capped(sorted_titles, group_max_count) ==
    IF group_max_count > 0
    THEN SubSeq(sorted_titles, 1, Min(group_max_count, Len(sorted_titles)))
    ELSE sorted_titles

\* A total that counts the sources instead of their titles.
TotalTitles_Sources(table) == Cardinality(DOMAIN table)

\* lines 226-227: total_titles += len(titles_data), for every source
TotalTitles(table) == LineCount(table)

\* cfg is [MAX_NEWS_PER_KEYWORD, SORT_BY_POSITION_FIRST]; the result is the pair
\* [stats, total_titles].
count_word_frequency(table, configured_groups, configured_filters, info, new, mode, is_first_today, rank_threshold, cfg) ==
    LET groups == IF configured_groups = <<>> THEN <<CatchAllGroup>> ELSE configured_groups
        filters == IF configured_groups = <<>> THEN <<>> ELSE configured_filters
        results_to_process == ResultsToProcess(table, info, new, mode, is_first_today)
        all_news_are_new == (mode = "incremental")
        entries == TableEntries(results_to_process)
        total == TotalTitles(results_to_process)
        keys == GroupKeys(groups)
        KeyOf(e) == LET g == AssignedGroup(e[2], groups, filters)
                    IN IF g = 0 THEN <<>> ELSE <<groups[g].group_key>>
        ItemOf(e) == MatchedItem(e[1], e[2], results_to_process[e[1]][e[2]], info, new,
                                 mode, all_news_are_new, rank_threshold)
        StatOf(key) ==
            LET matched == SelectSeq(entries, LAMBDA e : KeyOf(e) = <<key>>)
                all_titles == [i \in 1..Len(matched) |-> ItemOf(matched[i])]
                sorted_titles == SortItems(all_titles, rank_threshold)
                idx == LastIndexOf(groups, key)
                group_max_count == GroupMaxCount(groups[idx].max_count,
                                                 cfg.MAX_NEWS_PER_KEYWORD)
            IN [word |-> key,
                count |-> Len(matched),
                position |-> idx - 1,
                titles |-> Capped(sorted_titles, group_max_count),
                percentage |-> IF total > 0
                               THEN RoundHalfEven(Len(matched) * 10000, total)
                               ELSE 0]
    IN [stats |-> SortStats([i \in 1..Len(keys) |-> StatOf(keys[i])],
                            cfg.SORT_BY_POSITION_FIRST),
        total_titles |-> total]

(***************************************************************************)
(* Snapshots a crawl can leave in the day's directory, as parse_file_titles *)
(* reads them back: every title line carries exactly one rank.             *)
(***************************************************************************)
Observations(ranks, urls, mobiles) ==
    [ranks : {<<r>> : r \in ranks}, url : urls, mobileUrl : mobiles]

\* A section of a well-formed snapshot file has a header and at least one title
\* line, so its parsed source does not carry an empty title map.
SnapshotsOf(titles, obs, maxLines) ==
    {snap \in Maps(Sources, Maps(titles, obs)) :
        /\ \A s \in DOMAIN snap : DOMAIN snap[s] # {}
        /\ LineCount(snap) <= maxLines}

RankSnapshots == SnapshotsOf(Titles, Observations(Ranks, {""}, {""}), 2)
UrlSnapshots == SnapshotsOf({"x"}, Observations({1}, Urls, MobileUrls), 1)

\* utils.datetime.is_first_crawl_today: today has at most one snapshot file
is_first_crawl_today(fs) == Len(fs) <= 1

DefaultConfig == [MAX_NEWS_PER_KEYWORD |-> 0, SORT_BY_POSITION_FIRST |-> FALSE]

\* The switches NewsAnalyzer.run reads from CONFIG; has_notification is the
\* result of _has_notification_configured.
\* config.yaml as shipped: rank 0.6, frequency 0.3, hotness 0.1
DefaultWeights ==
    [RANK_WEIGHT |-> 600, FREQUENCY_WEIGHT |-> 300, HOTNESS_WEIGHT |-> 100]

DefaultRunConfig ==
    [ENABLE_CRAWLER |-> TRUE, ONLY_CRAWLER |-> FALSE,
     ENABLE_NOTIFICATION |-> TRUE, has_notification |-> FALSE]

\* The statistics of a table of fresh observations (analyzer.py
\* _analyze_daily_mode: the title info is built from the table itself).
AnalysisOf(table) ==
    count_word_frequency(table, word_groups, filter_words,
                         PrepareCurrentTitleInfo(table, 1), new_titles, report_mode,
                         is_first_crawl_today(files), RANK_THRESHOLD, config)

InitConfigured(groups, filters, mode, cfg) ==
    /\ files = <<>>
    /\ current_platform_ids \in PlatformConfigs
    /\ all_results = EmptyMap
    /\ title_info = EmptyMap
    /\ new_titles = EmptyMap
    /\ word_groups = groups
    /\ filter_words = filters
    /\ report_mode = mode
    /\ config = cfg
    /\ results = EmptyMap
    /\ stats = AnalysisOf(EmptyMap).stats
    /\ total_titles = 0
    /\ summary_stats = <<>>
    /\ summary_total = 0
    /\ scored = <<>>
    /\ weights = <<>>
    /\ id_to_name = EmptyMap
    /\ written = <<>>
    /\ parsed = EmptyMap
    /\ txt_dir = <<>>
    /\ frequency_file = <<>>
    /\ run_config = DefaultRunConfig
    /\ weight_config = DefaultWeights
    /\ record_dir = {}
    /\ beijing_day = 0
    /\ manager_ready = FALSE
    /\ raised = ""
    /\ sends = <<>>

InitWith(groups, filters, mode) == InitConfigured(groups, filters, mode, DefaultConfig)

InitRules(groups, filters) == InitWith(groups, filters, "daily")

Init == InitRules(<<>>, <<>>)

\* One run of the analyzer: the crawl writes a snapshot with a label later than
\* every existing one, then the tables are rebuilt from the whole directory.
Crawl(snap) ==
    /\ Len(files) < MaxFiles
    /\ DayLines(files) + LineCount(snap) <= MaxLines
    /\ files' = Append(files, snap)
    /\ LET tabs == read_all_today_titles(files', current_platform_ids)
       IN /\ all_results' = tabs.all_results
          /\ title_info' = tabs.title_info
    /\ new_titles' = detect_latest_new_titles(files', current_platform_ids)
    /\ UNCHANGED <<current_platform_ids, rulesVars, matcherVars, summaryVars, scorerVars,
                   codecVars, runVars>>

Next == \E snap \in RankSnapshots : Crawl(snap)

Spec == Init /\ [][Next]_vars

\* The same runs over snapshots that vary in url and mobile url.
NextUrl == \E snap \in UrlSnapshots : Crawl(snap)

SpecUrl == Init /\ [][NextUrl]_vars

(***************************************************************************)
(* The keyword rules as load_frequency_words returns them, and the tables  *)
(* of titles the matcher is run on.                                        *)
(***************************************************************************)
WordLists == {<<>>, << <<"a">> >>, << <<"B">> >>, << <<"a">>, <<"B">> >>}
FilterLists == {<<>>, << <<"B">> >>, << <<"a", "b">> >>}
MatchTitles == {<<>>, <<"a">>, <<"b">>, <<"A", "b">>, <<"b", "a">>}

\* process.py lines 106-119: a group is kept when it has a required or a normal
\* word; its key joins the normal words, or else the required words.
MakeGroup(required, normal, max_count) ==
    [required |-> required,
     normal |-> normal,
     group_key |-> IF normal # <<>> THEN Join(normal) ELSE Join(required),
     max_count |-> max_count]

KeywordGroups ==
    {MakeGroup(r, n, 0) : r \in WordLists, n \in WordLists} \ {MakeGroup(<<>>, <<>>, 0)}

GroupLists == UNION {[1..n -> KeywordGroups] : n \in 0..MaxGroups}

MatchTables == SnapshotsOf(MatchTitles, Observations({1}, {""}, {""}), 2)

InitMatch ==
    /\ \E groups \in GroupLists, filters \in FilterLists : InitRules(groups, filters)
    /\ current_platform_ids = Sources

\* One call of count_word_frequency on a freshly crawled table; the rules are
\* applied once per run.
Analyze(table) ==
    /\ results = EmptyMap
    /\ results' = table
    /\ LET out == AnalysisOf(table)
       IN /\ stats' = out.stats
          /\ total_titles' = out.total_titles
    /\ UNCHANGED <<mergerVars, rulesVars, summaryVars, scorerVars, codecVars, runVars>>

NextMatch == \E table \in MatchTables : Analyze(table)

SpecMatch == InitMatch /\ [][NextMatch]_vars

(***************************************************************************)
(* NewsAnalyzer.run: one crawl of the configured platforms, the analysis   *)
(* of the report mode on it and the summary report of the day.             *)
(***************************************************************************)
ReportModes == {"daily", "incremental", "current"}

ModeTitles == {<<"a">>, <<"b">>}
\* A crawl that fetched nothing is left to the empty-input runs: here every
\* snapshot lists a title.
ModeSnapshots == SnapshotsOf(ModeTitles, Observations(Ranks, {""}, {""}), 2) \ {EmptyMap}
\* The rules of a run, [groups, filters]: none; a group that title b does not
\* satisfy; a group that both titles satisfy and a filter word that rejects b.
ModeRules ==
    {[groups |-> <<>>, filters |-> <<>>],
     [groups |-> <<MakeGroup(<<>>, << <<"a">> >>, 0)>>, filters |-> <<>>],
     [groups |-> <<MakeGroup(<<>>, << <<"a">>, <<"b">> >>, 0)>>, filters |-> << <<"b">> >>]}

\* utils/config.py MODE_STRATEGIES_CONFIG: summary_mode
\* Title lines in the day's directory over the runs of one day: each run
\* analyses the directory twice, so the day is kept one line shorter.
MaxRunLines == MaxLines - 1

SummaryMode(mode) == IF mode = "current" THEN "current" ELSE "daily"

\* A run that ends before count_word_frequency returns leaves no statistics.
NoStats == [stats |-> <<>>, total_titles |-> 0]

\* _run_analysis_pipeline on the merged tables of the day
HistoricalAnalysis(tabs, new, mode, fs) ==
    count_word_frequency(tabs.all_results, word_groups, filter_words, tabs.title_info, new,
                         mode, is_first_crawl_today(fs), RANK_THRESHOLD, config)

\* _analyze_current_mode raises without historical data; the other modes
\* analyse the fresh crawl results with the title info built from them.
RealtimeAnalysis(fresh, time_info, tabs, new, fs) ==
    IF report_mode = "current"
    THEN IF tabs.all_results = EmptyMap THEN NoStats
         ELSE HistoricalAnalysis(tabs, new, "current", fs)
    ELSE count_word_frequency(fresh, word_groups, filter_words,
                              PrepareCurrentTitleInfo(fresh, time_info), new, report_mode,
                              is_first_crawl_today(fs), RANK_THRESHOLD, config)

\* _generate_summary_report / _generate_summary_html: nothing without data
SummaryAnalysis(tabs, new, fs) ==
    IF tabs.all_results = EmptyMap THEN NoStats
    ELSE HistoricalAnalysis(tabs, new, SummaryMode(report_mode), fs)

InitMode ==
    \E rules \in ModeRules, mode \in ReportModes : InitWith(rules.groups, rules.filters, mode)

Run(snap) ==
    /\ Len(files) < MaxFiles
    /\ DayLines(files) + LineCount(snap) <= MaxRunLines
    /\ DOMAIN snap \subseteq current_platform_ids
    /\ files' = Append(files, snap)
    /\ LET tabs == read_all_today_titles(files', current_platform_ids)
           new == detect_latest_new_titles(files', current_platform_ids)
           realtime == RealtimeAnalysis(snap, Len(files'), tabs, new, files')
           summary == SummaryAnalysis(tabs, new, files')
       IN /\ all_results' = tabs.all_results
          /\ title_info' = tabs.title_info
          /\ new_titles' = new
          /\ results' = IF report_mode = "current" THEN tabs.all_results ELSE snap
          /\ stats' = realtime.stats
          /\ total_titles' = realtime.total_titles
          /\ summary_stats' = summary.stats
          /\ summary_total' = summary.total_titles
    /\ UNCHANGED <<current_platform_ids, rulesVars, scorerVars, codecVars, runVars>>

NextMode == \E snap \in ModeSnapshots : Run(snap)

SpecMode == InitMode /\ [][NextMode]_vars

(***************************************************************************)
(* The Weight Scorer on its own: calculate_news_weight applied to two      *)
(* title records.                                                          *)
(***************************************************************************)
MaxRanks == 2   \* length of the rank list of a scored record

ScoreRanks == {1, 5, 6, 10, 99}
ScoreCounts == {1, 10, 11}

RankLists == UNION {[1..n -> ScoreRanks] : n \in 0..MaxRanks}

Score(title_data) ==
    /\ Len(scored) < 2
    /\ scored' = Append(scored, title_data)
    /\ weights' = Append(weights, calculate_news_weight(title_data, RANK_THRESHOLD))
    /\ UNCHANGED <<mergerVars, rulesVars, matcherVars, summaryVars, codecVars, runVars>>

NextWeight == \E ranks \in RankLists, count \in ScoreCounts : Score([ranks |-> ranks, count |-> count])

SpecWeight == Init /\ [][NextWeight]_vars

(***************************************************************************)
(* The daily summary of a long day.  The snapshot files of the day are not *)
(* enumerated: the merged tables of one platform are drawn as the merger   *)
(* leaves them after up to eleven snapshots.                               *)
(***************************************************************************)
MaxSorted == 3   \* titles of the summarised table

TitlePool == << <<"a">>, <<"a", "b">>, <<"b", "a">>, <<"b">>, <<"a", "a">> >>
SortTitles == {TitlePool[i] : i \in 1..Min(MaxSorted, Len(TitlePool))}

\* An identity seen in the first `count` snapshots of the day; it has at least
\* as many occurrences as ranks.
SortIdentities ==
    {[first_time |-> 1, last_time |-> c, count |-> c, ranks |-> r, url |-> "", mobileUrl |-> ""] :
        r \in {<<1>>, <<10>>, <<11>>}, c \in {10, 11}}
    \cup {[first_time |-> 1, last_time |-> 1, count |-> 1, ranks |-> <<1>>, url |-> "",
           mobileUrl |-> ""],
          [first_time |-> 1, last_time |-> 11, count |-> 11, ranks |-> <<11, 1>>, url |-> "",
           mobileUrl |-> ""]}

SortRules ==
    {<<>>,
     <<MakeGroup(<<>>, << <<"a">> >>, 0)>>,
     <<MakeGroup(<<>>, << <<"a">> >>, 2)>>,
     <<MakeGroup(<< <<"b">> >>, <<>>, 1), MakeGroup(<<>>, << <<"a">> >>, 0)>>}

SortConfigs == {[MAX_NEWS_PER_KEYWORD |-> n, SORT_BY_POSITION_FIRST |-> FALSE] : n \in {0, 1}}

InitSort ==
    /\ \E groups \in SortRules, cfg \in SortConfigs : InitConfigured(groups, <<>>, "daily", cfg)
    /\ current_platform_ids = Sources

\* _generate_summary_report on the merged tables of the day
Summarize(info) ==
    /\ title_info = EmptyMap
    /\ DOMAIN info # {}
    /\ LET tabs == [all_results |->
                      [s \in {"A"} |-> [t \in DOMAIN info |->
                          [ranks |-> info[t].ranks, url |-> info[t].url,
                           mobileUrl |-> info[t].mobileUrl]]],
                    title_info |-> [s \in {"A"} |-> info]]
           summary == SummaryAnalysis(tabs, new_titles, files)
       IN /\ all_results' = tabs.all_results
          /\ title_info' = tabs.title_info
          /\ summary_stats' = summary.stats
          /\ summary_total' = summary.total_titles
    /\ UNCHANGED <<files, current_platform_ids, new_titles, rulesVars, matcherVars, scorerVars,
                   codecVars, runVars>>

NextSort == \E info \in Maps(SortTitles, SortIdentities) : Summarize(info)

SpecSort == InitSort /\ [][NextSort]_vars

(***************************************************************************)
(* The Snapshot Codec: save_titles_to_file and parse_file_titles.          *)
(* A file is a sequence of lines and a line a sequence of characters, a    *)
(* blank line being the empty sequence.  Source ids, display names and     *)
(* urls are written as one character each; a title is a sequence of        *)
(* characters.  The separators " | ", " [URL:" and " [MOBILE:", which no   *)
(* id, name, url or title of the model contains, and the banner of the     *)
(* failed-ids block are one element of a line each.                        *)
(***************************************************************************)

DigitChars == <<"0", "1", "2", "3", "4", "5", "6", "7", "8", "9">>

\* str(rank) of the f-string of line 42
RECURSIVE ToDigits(_)
ToDigits(n) ==
    IF n < 10 THEN <<DigitChars[n + 1]>>
    ELSE Append(ToDigits(n \div 10), DigitChars[(n % 10) + 1])

\* Characters str.isdigit() accepts and int() rejects: the superscript digits,
\* written here by name.
OtherDigits == {"sup2"}

\* the strings of decimal digits, which int() converts
IsDecimal(str) ==
    /\ str # <<>>
    /\ \A i \in 1..Len(str) : \E d \in 1..10 : DigitChars[d] = str[i]

\* str.isdigit()
isdigit(str) ==
    /\ str # <<>>
    /\ \A i \in 1..Len(str) : (\E d \in 1..10 : DigitChars[d] = str[i]) \/ str[i] \in OtherDigits

\* int(rank_str) of a string isdigit accepts
RECURSIVE ToInt(_)
ToInt(str) ==
    IF str = <<>> THEN 0
    ELSE ToInt(SubSeq(str, 1, Len(str) - 1)) * 10
           + (CHOOSE d \in 1..10 : DigitChars[d] = str[Len(str)]) - 1

\* str.strip()
RECURSIVE strip(_)
strip(str) ==
    IF str = <<>> THEN str
    ELSE IF Head(str) = " " THEN strip(Tail(str))
    ELSE IF str[Len(str)] = " " THEN strip(SubSeq(str, 1, Len(str) - 1))
    ELSE str

\* every run of blanks becomes one blank
RECURSIVE CollapseBlanks(_)
CollapseBlanks(str) ==
    IF Len(str) < 2 THEN str
    ELSE IF str[1] = " " /\ str[2] = " " THEN CollapseBlanks(Tail(str))
    ELSE <<Head(str)>> \o CollapseBlanks(Tail(str))

\* utils.formatter.clean_title: the title with its whitespace normalised
clean_title(title) == strip(CollapseBlanks(title))

\* the text of a source id, a display name or a url, and back
Text(atom) == IF atom = "" THEN <<>> ELSE <<atom>>
FromText(str) == IF str = <<>> THEN "" ELSE IF Len(str) = 1 THEN str[1] ELSE str

\* line 53: the first line of the failed-ids block
FAILED_BANNER == "==== failed ids ===="

\* lines 17-21: `id | name` or `id`
HeaderLine(id_value, names) ==
    IF id_value \in DOMAIN names /\ names[id_value] # "" /\ names[id_value] # id_value
    THEN <<id_value, " | ", names[id_value]>>
    ELSE <<id_value>>

\* line 36
WrittenRank(ranks) == IF ranks # <<>> THEN ranks[1] ELSE 1

\* lines 25-37: one entry per title of the source
TitleEntry(title, info) ==
    [rank |-> WrittenRank(info.ranks), cleaned_title |-> clean_title(title),
     url |-> info.url, mobile_url |-> info.mobileUrl]

\* line 39: list.sort(key = rank) is stable
RECURSIVE InsertEntry(_, _)
InsertEntry(sorted, entry) ==
    IF sorted = <<>> THEN <<entry>>
    ELSE IF sorted[Len(sorted)].rank <= entry.rank THEN Append(sorted, entry)
    ELSE Append(InsertEntry(SubSeq(sorted, 1, Len(sorted) - 1), entry), sorted[Len(sorted)])

RECURSIVE SortEntries(_)
SortEntries(entries) ==
    IF entries = <<>> THEN <<>>
    ELSE InsertEntry(SortEntries(SubSeq(entries, 1, Len(entries) - 1)), entries[Len(entries)])

\* lines 42-47
TitleLine(entry) ==
    ToDigits(entry.rank) \o <<".", " ">> \o entry.cleaned_title
      \o (IF entry.url # "" THEN <<" [URL:">> \o Text(entry.url) \o <<"]">> ELSE <<>>)
      \o (IF entry.mobile_url # ""
          THEN <<" [MOBILE:">> \o Text(entry.mobile_url) \o <<"]">> ELSE <<>>)

\* lines 15-50: the block of one source, its blank line included
SourceBlock(id_value, title_data, names) ==
    LET order == SetToSeq(DOMAIN title_data)
        entries == [i \in 1..Len(order) |-> TitleEntry(order[i], title_data[order[i]])]
        sorted_titles == SortEntries(entries)
    IN <<HeaderLine(id_value, names)>>
         \o [i \in 1..Len(sorted_titles) |-> TitleLine(sorted_titles[i])]
         \o << <<>> >>

\* lines 52-55
FailedBlock(failed_ids) ==
    IF failed_ids = <<>> THEN <<>>
    ELSE << <<FAILED_BANNER>> >> \o [i \in 1..Len(failed_ids) |-> Text(failed_ids[i])]

save_titles_to_file(fetched, names, failed_ids) ==
    LET order == SetToSeq(DOMAIN fetched)
    IN Concat([i \in 1..Len(order) |-> SourceBlock(order[i], fetched[order[i]], names)])
         \o FailedBlock(failed_ids)

\* line 131: content.split("\n\n"), the sections between blank lines
RECURSIVE SplitSections(_, _)
SplitSections(lines, section) ==
    IF lines = <<>> THEN <<section>>
    ELSE IF Head(lines) = <<>> THEN <<section>> \o SplitSections(Tail(lines), <<>>)
    ELSE SplitSections(Tail(lines), Append(section, Head(lines)))

\* position of the first `. ` of a line, 0 when it has none
FirstDotSpace(str) ==
    LET hits == {i \in 1..(Len(str) - 1) : str[i] = "." /\ str[i + 1] = " "}
    IN IF hits = {} THEN 0 ELSE CHOOSE i \in hits : \A j \in hits : i <= j

\* position of the last occurrence of a separator, 0 when it has none
LastIndex(str, sep) ==
    LET hits == {i \in 1..Len(str) : str[i] = sep}
    IN IF hits = {} THEN 0 ELSE CHOOSE i \in hits : \A j \in hits : j <= i

\* lines 169-170 and 176-177: the text of a suffix up to its closing bracket
SuffixUrl(part) ==
    IF part # <<>> /\ part[Len(part)] = "]"
    THEN FromText(SubSeq(part, 1, Len(part) - 1))
    ELSE ""

\* lines 157-186: one title line
ParseLine(line) ==
    LET stripped == strip(line)
        dot == FirstDotSpace(stripped)
        has_rank == dot > 0 /\ isdigit(SubSeq(stripped, 1, dot - 1))
        after_rank == IF has_rank THEN SubSeq(stripped, dot + 2, Len(stripped)) ELSE stripped
        m == LastIndex(after_rank, " [MOBILE:")
        after_mobile == IF m > 0 THEN SubSeq(after_rank, 1, m - 1) ELSE after_rank
        mobile_url == IF m > 0 THEN SuffixUrl(SubSeq(after_rank, m + 1, Len(after_rank)))
                      ELSE ""
        u == LastIndex(after_mobile, " [URL:")
        title_part == IF u > 0 THEN SubSeq(after_mobile, 1, u - 1) ELSE after_mobile
        url == IF u > 0 THEN SuffixUrl(SubSeq(after_mobile, u + 1, Len(after_mobile)))
               ELSE ""
    IN [title |-> clean_title(strip(title_part)),
        data |-> [ranks |-> IF has_rank THEN <<ToInt(SubSeq(stripped, 1, dot - 1))>>
                            ELSE <<1>>,
                  url |-> url, mobileUrl |-> mobile_url]]

\* line 163: int(rank_str) raises ValueError on a rank isdigit accepted
LineRaises(line) ==
    LET stripped == strip(line)
        dot == FirstDotSpace(stripped)
    IN /\ dot > 0
       /\ isdigit(SubSeq(stripped, 1, dot - 1))
       /\ ~IsDecimal(SubSeq(stripped, 1, dot - 1))

\* A parse without the try of line 156: the first line that raises ends the
\* section.
RECURSIVE ParseLines_AbortSection(_, _)
ParseLines_AbortSection(lines, titles) ==
    IF lines = <<>> THEN titles
    ELSE IF strip(Head(lines)) = <<>> THEN ParseLines_AbortSection(Tail(lines), titles)
    ELSE IF LineRaises(Head(lines)) THEN titles
    ELSE LET entry == ParseLine(Head(lines))
         IN ParseLines_AbortSection(Tail(lines),
                                    (entry.title :> entry.data)
                                      @@ [t \in DOMAIN titles \ {entry.title} |-> titles[t]])

\* lines 154-189: the title lines of a section, a later line replacing an
\* earlier one of the same title; a line whose parse raises is skipped
RECURSIVE ParseLines(_, _)
ParseLines(lines, titles) ==
    IF lines = <<>> THEN titles
    ELSE IF strip(Head(lines)) = <<>> THEN ParseLines(Tail(lines), titles)
    ELSE IF LineRaises(Head(lines)) THEN ParseLines(Tail(lines), titles)
    ELSE LET entry == ParseLine(Head(lines))
         IN ParseLines(Tail(lines),
                       (entry.title :> entry.data)
                         @@ [t \in DOMAIN titles \ {entry.title} |-> titles[t]])

\* lines 142-150
HeaderId(header_line) ==
    LET bar == {i \in 1..Len(header_line) : header_line[i] = " | "}
        first == CHOOSE i \in bar : \A j \in bar : i <= j
    IN IF bar # {}
       THEN [source_id |-> FromText(strip(SubSeq(header_line, 1, first - 1))),
             name |-> FromText(strip(SubSeq(header_line, first + 1, Len(header_line))))]
       ELSE [source_id |-> FromText(header_line), name |-> FromText(header_line)]

\* lines 134-139: the failed-ids block and a section of fewer than two lines
\* are skipped
SectionSkipped(section) ==
    \/ \A i \in 1..Len(section) : strip(section[i]) = <<>>
    \/ \E i \in 1..Len(section) : \E k \in 1..Len(section[i]) : section[i][k] = FAILED_BANNER
    \/ Len(section) < 2

RECURSIVE ParseSections(_, _)
ParseSections(sections, acc) ==
    IF sections = <<>> THEN acc
    ELSE IF SectionSkipped(Head(sections)) THEN ParseSections(Tail(sections), acc)
    ELSE LET section == Head(sections)
             header == HeaderId(strip(section[1]))
             id == header.source_id
             rest == [s \in DOMAIN acc.titles_by_id \ {id} |-> acc.titles_by_id[s]]
             names == [s \in DOMAIN acc.id_to_name \ {id} |-> acc.id_to_name[s]]
         IN ParseSections(Tail(sections),
                          [titles_by_id |-> (id :> ParseLines(Tail(section), EmptyMap)) @@ rest,
                           id_to_name |-> (id :> header.name) @@ names])

parse_file_titles(file) ==
    ParseSections(SplitSections(file, <<>>),
                  [titles_by_id |-> EmptyMap, id_to_name |-> EmptyMap])

(***************************************************************************)
(* The fetch results a crawl hands to the codec, and the codec's steps.    *)
(***************************************************************************)

CodecTitles == {<<"x">>, <<"y">>}
CodecRanks == {<<1>>, <<2>>, <<3, 1>>}
CodecObservations == [ranks : CodecRanks, url : {"", "u"}, mobileUrl : {"", "m"}]
MaxFetched == 2   \* title lines of a fetch result
FetchResults ==
    {fetched \in Maps(Sources, Maps(CodecTitles, CodecObservations)) \ {EmptyMap} :
        LineCount(fetched) <= MaxFetched}
DisplayNames == Maps(Sources, {"N"})
FailedIds == {<<>>, <<"C">>}

\* crawl_websites hands its results to save_titles_to_file
Save(fetched, names, failed_ids) ==
    /\ results' = fetched
    /\ id_to_name' = names
    /\ written' = save_titles_to_file(fetched, names, failed_ids)
    /\ UNCHANGED <<files, current_platform_ids, all_results, title_info, new_titles,
                   rulesVars, stats, total_titles, summaryVars, scorerVars, parsed, txt_dir, runVars>>

\* the file is read back
Parse ==
    /\ written # <<>>
    /\ parsed = EmptyMap
    /\ parsed' = parse_file_titles(written)
    /\ UNCHANGED <<mergerVars, rulesVars, matcherVars, summaryVars, scorerVars,
                   id_to_name, written, txt_dir, runVars>>

\* one snapshot file per run: the crawl saves once, then the file is read
NextCodec ==
    \/ /\ written = <<>>
       /\ \E fetched \in FetchResults, names \in DisplayNames, failed_ids \in FailedIds :
            Save(fetched, names, failed_ids)
    \/ Parse

SpecCodec == Init /\ [][NextCodec]_vars

(***************************************************************************)
(* The day's directory as text: snapshot files whose title lines may fail  *)
(* to parse, read back by read_all_today_titles.                           *)
(***************************************************************************)

MaxTexts == 2   \* text files in the day's directory

\* title lines as save_titles_to_file writes them
WellFormedLines ==
    {TitleLine([rank |-> 1, cleaned_title |-> <<"x">>, url |-> "", mobile_url |-> ""]),
     TitleLine([rank |-> 2, cleaned_title |-> <<"y">>, url |-> "u", mobile_url |-> ""])}

\* title lines whose rank int() rejects
MalformedLines == {<<"sup2", ".", " ", "x">>}

\* the blocks of a source: its header and one or two title lines
TextBlocks(id, lines) ==
    {<<HeaderLine(id, EmptyMap)>> \o body \o << <<>> >> :
        body \in UNION {[1..n -> lines] : n \in 1..2}}

\* a file holds the block of A, then possibly a block of B
DayTexts ==
    TextBlocks("A", WellFormedLines \cup MalformedLines)
      \cup {a \o <<HeaderLine("B", EmptyMap), <<"1", ".", " ", "x">>, <<>> >> :
              a \in TextBlocks("A", WellFormedLines \cup MalformedLines)}

\* A later crawl leaves its file in the directory and the day is read again:
\* every file is parsed and folded into the tables.
ReadDay(text) ==
    /\ Len(txt_dir) < MaxTexts
    /\ txt_dir' = Append(txt_dir, text)
    /\ written' = text
    /\ parsed' = parse_file_titles(text)
    /\ files' = Append(files, parse_file_titles(text).titles_by_id)
    /\ LET tabs == read_all_today_titles(files', current_platform_ids)
       IN /\ all_results' = tabs.all_results
          /\ title_info' = tabs.title_info
    /\ new_titles' = detect_latest_new_titles(files', current_platform_ids)
    /\ UNCHANGED <<current_platform_ids, rulesVars, matcherVars, summaryVars, scorerVars,
                   id_to_name, runVars>>

NextParse == \E text \in DayTexts : ReadDay(text)

SpecParse == Init /\ [][NextParse]_vars

(***************************************************************************)
(* load_frequency_words: the keyword rules are read from a text file, a    *)
(* sequence of lines; a word is the sequence of characters after the       *)
(* line's prefix character.                                                *)
(***************************************************************************)

MaxRuleLines == 4   \* lines of the frequency words file

RuleLines ==
    {<<>>, <<" ">>, <<"a">>, <<"+", "b">>, <<"+">>, <<"!", "c">>,
     <<"@", "2">>, <<"@", "1">>, <<"@", "0">>, <<"@", "a">>}

FrequencyFiles == UNION {[1..n -> RuleLines] : n \in 1..MaxRuleLines}

\* line 82: the stripped, non-empty lines of a group
RECURSIVE GroupWords(_)
GroupWords(lines) ==
    IF lines = <<>> THEN <<>>
    ELSE IF strip(Head(lines)) = <<>> THEN GroupWords(Tail(lines))
    ELSE <<strip(Head(lines))>> \o GroupWords(Tail(lines))

\* lines 84-87
EmptyGroup == [required |-> <<>>, normal |-> <<>>, filters |-> <<>>, max_count |-> 0]

\* A reading of an @ line that takes every value, 0 included.
MaxCountAfter_AnyValue(max_count, word) == IF IsDecimal(Tail(word)) THEN ToInt(Tail(word)) ELSE max_count

\* lines 92-97: only a positive integer sets the maximum
MaxCountAfter(max_count, word) ==
    IF IsDecimal(Tail(word)) /\ ToInt(Tail(word)) > 0 THEN ToInt(Tail(word)) ELSE max_count

\* lines 89-104: one word of a group
RuleStep(acc, word) ==
    IF word[1] = "@" THEN [acc EXCEPT !.max_count = MaxCountAfter(acc.max_count, word)]
    ELSE IF word[1] = "!" THEN [acc EXCEPT !.filters = Append(@, Tail(word))]
    ELSE IF word[1] = "+" THEN [acc EXCEPT !.required = Append(@, Tail(word))]
    ELSE [acc EXCEPT !.normal = Append(@, word)]

RECURSIVE ParseGroup(_, _)
ParseGroup(words, acc) ==
    IF words = <<>> THEN acc ELSE ParseGroup(Tail(words), RuleStep(acc, Head(words)))

\* lines 81-119: the groups in file order; a group without required and
\* normal words is dropped, its filter words are kept
RECURSIVE ParseRuleGroups(_, _)
ParseRuleGroups(sections, acc) ==
    IF sections = <<>> THEN acc
    ELSE LET group == ParseGroup(GroupWords(Head(sections)), EmptyGroup)
             kept == group.required # <<>> \/ group.normal # <<>>
         IN ParseRuleGroups(Tail(sections),
              [processed_groups |->
                 IF kept
                 THEN Append(acc.processed_groups,
                             MakeGroup(group.required, group.normal, group.max_count))
                 ELSE acc.processed_groups,
               filter_words |-> acc.filter_words \o group.filters])

\* line 76: content.split("\n\n"), without the groups that strip to nothing
load_frequency_words(file) ==
    ParseRuleGroups(SelectSeq(SplitSections(file, <<>>), LAMBDA sec : GroupWords(sec) # <<>>),
                    [processed_groups |-> <<>>, filter_words |-> <<>>])

Load(file) ==
    /\ frequency_file' = file
    /\ word_groups' = load_frequency_words(file).processed_groups
    /\ filter_words' = load_frequency_words(file).filter_words
    /\ UNCHANGED <<mergerVars, matcherVars, summaryVars, scorerVars, codecVars,
                   report_mode, config, runVars>>

\* the rules are loaded once, when the analyzer starts
NextRules ==
    /\ frequency_file = <<>>
    /\ \E file \in FrequencyFiles : Load(file)

SpecRules == Init /\ [][NextRules]_vars

(***************************************************************************)
(* NewsAnalyzer.run as a whole: the switches of CONFIG, the exception it   *)
(* may end with and the notifications it sends.  The keyword file exists   *)
(* and no large-model key is configured, so llm_analysis falls through to  *)
(* count_word_frequency.                                                   *)
(***************************************************************************)

AllModes == ReportModes \cup {"llm_analysis"}

\* MODE_STRATEGIES_CONFIG
should_send_realtime(mode) == mode \in {"incremental", "current", "llm_analysis"}
should_generate_summary(mode) == mode \in {"incremental", "current", "daily"}

\* ONLY_CRAWLER is read only when the crawler is enabled, and a run that only
\* crawls reads no notification switch.
RunConfigs ==
    [ENABLE_CRAWLER : BOOLEAN, ONLY_CRAWLER : {FALSE},
     ENABLE_NOTIFICATION : BOOLEAN, has_notification : BOOLEAN]
      \cup {[ENABLE_CRAWLER |-> TRUE, ONLY_CRAWLER |-> TRUE,
              ENABLE_NOTIFICATION |-> FALSE, has_notification |-> FALSE]}

\* what a crawl can fetch: nothing, or one title of source A
RunSnapshots ==
    {EmptyMap} \cup {"A" :> (t :> [ranks |-> <<1>>, url |-> "", mobileUrl |-> ""]) : t \in ModeTitles}

RunRules == {r \in ModeRules : Len(r.groups) <= 1 /\ r.filters = <<>>}

\* the time label _prepare_analysis_data_from_history gives the merged data
HistoryTime == MaxFiles + 1

\* _has_valid_content
HasValidContent(st, new) ==
    LET has_matched_news == \E i \in 1..Len(st) : st[i].count > 0
        has_new_news == \E s \in DOMAIN new : DOMAIN new[s] # {}
    IN IF report_mode \in {"incremental", "current"} THEN has_matched_news
       ELSE has_matched_news \/ has_new_news

\* _send_notification_if_needed: the condition of the send_to_notifications call
Notifies(cfg, st, new) ==
    cfg.ENABLE_NOTIFICATION /\ cfg.has_notification /\ HasValidContent(st, new)

\* A realtime step that sends in every mode.
RealtimeSends_EveryMode(cfg, st, new) ==
    IF Notifies(cfg, st, new) THEN <<"realtime">> ELSE <<>>

\* _send_realtime_notification; current mode is reached with historical data
RealtimeSends(cfg, st, new) ==
    IF should_send_realtime(report_mode) /\ Notifies(cfg, st, new) THEN <<"realtime">> ELSE <<>>

\* _generate_and_send_summary: only _generate_summary_report notifies
SummarySends(cfg, tabs, st, new) ==
    IF /\ should_generate_summary(report_mode)
       /\ ~should_send_realtime(report_mode)
       /\ tabs.all_results # EmptyMap
       /\ Notifies(cfg, st, new)
    THEN <<"summary">> ELSE <<>>

\* the step of run that raises RuntimeError, "" when none does
RunError(cfg, tabs) ==
    IF ~cfg.ENABLE_CRAWLER /\ tabs.all_results = EmptyMap THEN "RuntimeError"
    ELSE IF report_mode = "current" /\ tabs.all_results = EmptyMap THEN "RuntimeError"
    ELSE ""

InitRun ==
    /\ \E rules \in RunRules, mode \in AllModes : InitWith(rules.groups, rules.filters, mode)
    /\ current_platform_ids = {"A"}

\* One execution of NewsAnalyzer.run under the configuration cfg; snap is
\* what the crawl fetches when the crawler is enabled.
RunAnalyzer(cfg, snap) ==
    /\ cfg.ENABLE_CRAWLER => Len(files) < MaxFiles
    /\ ~cfg.ENABLE_CRAWLER => snap = EmptyMap
    /\ run_config' = cfg
    /\ files' = IF cfg.ENABLE_CRAWLER THEN Append(files, snap) ELSE files
    /\ IF cfg.ENABLE_CRAWLER /\ cfg.ONLY_CRAWLER
       THEN /\ raised' = ""
            /\ sends' = <<>>
            /\ UNCHANGED <<all_results, title_info, new_titles, matcherVars, summaryVars>>
       ELSE LET tabs == read_all_today_titles(files', current_platform_ids)
                new == detect_latest_new_titles(files', current_platform_ids)
                error == RunError(cfg, tabs)
                fresh == IF cfg.ENABLE_CRAWLER THEN snap ELSE tabs.all_results
                time_info == IF cfg.ENABLE_CRAWLER THEN Len(files') ELSE HistoryTime
                realtime == IF error # "" THEN NoStats
                            ELSE RealtimeAnalysis(fresh, time_info, tabs, new, files')
                summary == IF error # "" \/ ~should_generate_summary(report_mode) THEN NoStats
                           ELSE SummaryAnalysis(tabs, new, files')
            IN /\ raised' = error
               /\ all_results' = tabs.all_results
               /\ title_info' = tabs.title_info
               /\ new_titles' = new
               /\ results' = IF report_mode = "current" THEN tabs.all_results ELSE fresh
               /\ stats' = realtime.stats
               /\ total_titles' = realtime.total_titles
               /\ summary_stats' = summary.stats
               /\ summary_total' = summary.total_titles
               /\ sends' = IF error # "" THEN <<>>
                           ELSE RealtimeSends(cfg, realtime.stats, new)
                                  \o SummarySends(cfg, tabs, summary.stats, new)
    /\ UNCHANGED <<current_platform_ids, rulesVars, scorerVars, codecVars, weight_config,
                   pushVars>>

NextRun == \E cfg \in RunConfigs, snap \in RunSnapshots : RunAnalyzer(cfg, snap)

SpecRun == InitRun /\ [][NextRun]_vars

(***************************************************************************)
(* llm_analysis: LLMAnalyzer.news_analyze converts the groups the large    *)
(* model returned into stats.  A display name is the platform id; the rank *)
(* of a NewsTitle is kept as a list, is_list telling whether the model     *)
(* gave a list.                                                            *)
(***************************************************************************)

LlmSnapshots ==
    {"A" :> ("x" :> [ranks |-> <<1>>, url |-> "u1", mobileUrl |-> "m1"]),
     "A" :> ("x" :> [ranks |-> <<2>>, url |-> "", mobileUrl |-> ""]
               @@ "y" :> [ranks |-> <<1>>, url |-> "", mobileUrl |-> ""])}

NewsTitles ==
    {[rank |-> <<1>>, is_list |-> FALSE, source |-> "A"],
     [rank |-> <<2, 1>>, is_list |-> TRUE, source |-> "A"],
     [rank |-> <<3>>, is_list |-> FALSE, source |-> "Z"]}

NewsGroups ==
    {[rank |-> 1, keywords |-> << <<"k">> >>, news_title |-> titles] :
        titles \in UNION {[1..n -> NewsTitles] : n \in 0..2}}

LlmResults == UNION {[1..n -> NewsGroups] : n \in 0..2}

\* lines 205-210: the id of the configured platform the source names, "" for none
PlatformOf(source) == IF source \in current_platform_ids THEN source ELSE ""

\* lines 212-216: the first stored title of the platform that carries the rank
StoredTitle(rank, source, data_source) ==
    LET platform_id == PlatformOf(source)
        order == IF platform_id \in DOMAIN data_source
                 THEN SetToSeq(DOMAIN data_source[platform_id]) ELSE <<>>
        hits == {i \in 1..Len(order) :
                   \E k \in 1..Len(data_source[platform_id][order[i]].ranks) :
                       data_source[platform_id][order[i]].ranks[k] = rank}
    IN IF hits = {} THEN "" ELSE order[CHOOSE i \in hits : \A j \in hits : i <= j]

\* _find_news_detail_from_title_info, with the defaults the caller's .get adds
NewsDetail(rank, source, data_source, info) ==
    LET platform_id == PlatformOf(source)
        title == StoredTitle(rank, source, data_source)
        found == title # ""
        known == found /\ platform_id \in DOMAIN info /\ title \in DOMAIN info[platform_id]
    IN IF known
       THEN [first_time |-> info[platform_id][title].first_time,
             last_time |-> info[platform_id][title].last_time,
             count |-> info[platform_id][title].count,
             url |-> info[platform_id][title].url,
             mobile_url |-> info[platform_id][title].mobileUrl]
       ELSE IF found
       THEN [first_time |-> NoTime, last_time |-> NoTime,
             count |-> Len(data_source[platform_id][title].ranks),
             url |-> data_source[platform_id][title].url,
             mobile_url |-> data_source[platform_id][title].mobileUrl]
       ELSE [first_time |-> NoTime, last_time |-> NoTime, count |-> 1,
             url |-> "", mobile_url |-> ""]

\* lines 159-176: the record of one title of a group
LlmTitle(news_title, data_source, info, rank_threshold) ==
    LET rank_value == news_title.rank[1]
        news_detail == NewsDetail(rank_value, news_title.source, data_source, info)
    IN [title |-> StoredTitle(rank_value, news_title.source, data_source),
        source_name |-> news_title.source,
        first_time |-> news_detail.first_time,
        last_time |-> news_detail.last_time,
        time_display |-> format_time_display(news_detail.first_time, news_detail.last_time),
        count |-> news_detail.count,
        ranks |-> news_title.rank,
        rank_threshold |-> rank_threshold,
        url |-> news_detail.url,
        mobile_url |-> news_detail.mobile_url,
        is_new |-> FALSE]

RECURSIVE SumNewsTitles(_)
SumNewsTitles(groups) ==
    IF groups = <<>> THEN 0 ELSE Len(Head(groups).news_title) + SumNewsTitles(Tail(groups))

\* lines 129-199; the percentage is kept in hundredths
convert_llm_groups_to_stats(validated_groups, data_source, info, rank_threshold) ==
    LET total == SumNewsTitles(validated_groups)
    IN [g \in 1..Len(validated_groups) |->
          [word |-> Join(validated_groups[g].keywords),
           count |-> Len(validated_groups[g].news_title),
           percentage |-> IF total > 0
                          THEN RoundHalfEven(Len(validated_groups[g].news_title) * 10000, total)
                          ELSE 0,
           titles |-> [i \in 1..Len(validated_groups[g].news_title) |->
                         LlmTitle(validated_groups[g].news_title[i], data_source, info,
                                  rank_threshold)]]]

\* _deduplicate_data_source: the tables of the batch when the day has no data
Deduplicated(data_source) ==
    [all_results |-> data_source,
     title_info |-> [s \in DOMAIN data_source |-> [t \in DOMAIN data_source[s] |->
                       [first_time |-> NoTime, last_time |-> NoTime,
                        count |-> IF data_source[s][t].ranks # <<>>
                                  THEN Len(data_source[s][t].ranks) ELSE 1,
                        ranks |-> data_source[s][t].ranks,
                        url |-> data_source[s][t].url,
                        mobileUrl |-> data_source[s][t].mobileUrl]]]]

InitLlm ==
    /\ InitWith(<<>>, <<>>, "llm_analysis")
    /\ current_platform_ids = {"A"}

\* news_analyze on the batch just crawled, the model's answer validating to
\* the groups: the stats _run_analysis_pipeline returns
NewsAnalyze(validated_groups) ==
    /\ files # <<>>
    /\ results = EmptyMap
    /\ results' = files[Len(files)]
    /\ LET tabs == read_all_today_titles(files, current_platform_ids)
           base == IF tabs.all_results = EmptyMap THEN Deduplicated(files[Len(files)]) ELSE tabs
       IN /\ stats' = convert_llm_groups_to_stats(validated_groups, base.all_results,
                                                  base.title_info, RANK_THRESHOLD)
          /\ total_titles' = SumNewsTitles(validated_groups)
    /\ UNCHANGED <<mergerVars, rulesVars, summaryVars, scorerVars, codecVars, runVars>>

NextLlm ==
    \/ /\ results = EmptyMap
       /\ \E snap \in LlmSnapshots : Crawl(snap)
    \/ /\ files # <<>>
       /\ \E validated_groups \in LlmResults : NewsAnalyze(validated_groups)

SpecLlm == InitLlm /\ [][NextLlm]_vars

(***************************************************************************)
(* load_config: the weights of config.yaml reach CONFIG through the        *)
(* TrendRadarConfig model, whose WEIGHT_CONFIG field is a Dict[str, float].*)
(* A weight is counted in thousandths; is_float tells whether pydantic can *)
(* read the YAML value as a float.                                         *)
(***************************************************************************)

WeightValues ==
    {[is_float |-> TRUE, value |-> v] : v \in {0, 100, 300, 600, 601, 1500}}
        \cup {[is_float |-> FALSE, value |-> 0]}

WeightSections ==
    [rank_weight : WeightValues, frequency_weight : WeightValues,
     hotness_weight : WeightValues]

\* WeightConfig.validate_weights_sum: true when the model accepts the weights
validate_weights_sum(w) ==
    LET total == w.RANK_WEIGHT + w.FREQUENCY_WEIGHT + w.HOTNESS_WEIGHT
        diff == IF total >= 1000 THEN total - 1000 ELSE 1000 - total
    IN diff <= 1

\* TrendRadarConfig(**config) as far as WEIGHT_CONFIG: Dict[str, float] goes
ValidatedWeights(section) == \A k \in DOMAIN section : section[k].is_float

\* load_config on a config.yaml with the given weight section
load_config(section) ==
    /\ IF ValidatedWeights(section)
       THEN /\ weight_config' = [RANK_WEIGHT |-> section.rank_weight.value,
                                 FREQUENCY_WEIGHT |-> section.frequency_weight.value,
                                 HOTNESS_WEIGHT |-> section.hotness_weight.value]
            /\ raised' = ""
       ELSE /\ raised' = "ValueError"
            /\ UNCHANGED weight_config
    /\ UNCHANGED <<mergerVars, rulesVars, matcherVars, summaryVars, scorerVars, codecVars,
                   run_config, sends, pushVars>>

NextConfig == \E section \in WeightSections : load_config(section)

SpecConfig == Init /\ [][NextConfig]_vars

(***************************************************************************)
(* PushRecordManager: one push_record_YYYYMMDD.json file per day with a    *)
(* push.  A day is counted from the first day of the run of the model.     *)
(***************************************************************************)

MaxDay == 9   \* days the model lets pass

RECORD_RETENTION_DAYS == 7

\* line 33: datetime is the module bound by "import datetime" (line 3), which
\* has no attribute strptime, so the call raises AttributeError for every
\* file name
StrptimeRaises(date_str) == TRUE

\* line 36: (current_time - file_date).days > retention_days
Expired(file_day, current_day, retention_days) == current_day - file_day > retention_days

\* lines 29-40: a file whose iteration raises is left in place
cleanup_old_records(dir, current_day, retention_days) ==
    {d \in dir : StrptimeRaises(d) \/ ~Expired(d, current_day, retention_days)}

\* PushRecordManager.__init__
NewPushRecordManager ==
    /\ ~manager_ready
    /\ record_dir' = cleanup_old_records(record_dir, beijing_day, RECORD_RETENTION_DAYS)
    /\ manager_ready' = TRUE
    /\ UNCHANGED <<beijing_day, mergerVars, rulesVars, matcherVars, summaryVars, scorerVars,
                   codecVars, run_config, raised, sends, weight_config>>

\* record_push writes the record file of the day
record_push ==
    /\ manager_ready
    /\ beijing_day \notin record_dir
    /\ record_dir' = record_dir \cup {beijing_day}
    /\ UNCHANGED <<beijing_day, manager_ready, mergerVars, rulesVars, matcherVars, summaryVars,
                   scorerVars, codecVars, run_config, raised, sends, weight_config>>

\* the next day begins; the program of the day before has ended
NextDay ==
    /\ beijing_day < MaxDay
    /\ beijing_day' = beijing_day + 1
    /\ manager_ready' = FALSE
    /\ UNCHANGED <<record_dir, mergerVars, rulesVars, matcherVars, summaryVars, scorerVars,
                   codecVars, run_config, raised, sends, weight_config>>

NextRecords == NewPushRecordManager \/ record_push \/ NextDay

SpecRecords == Init /\ [][NextRecords]_vars

(***************************************************************************)
(* Properties of the Identity Merger and the Novelty Detector.             *)
(***************************************************************************)

\* Snapshot i of fs lists the pair (s, t) after the allow-list filter.
ContainsIn(fs, i, s, t) ==
    /\ s \in current_platform_ids
    /\ s \in DOMAIN fs[i]
    /\ t \in DOMAIN fs[i][s]

Occurrences(s, t) == Cardinality({i \in 1..Len(files) : ContainsIn(files, i, s, t)})

IsIdentity(tab, s, t) == s \in DOMAIN tab /\ t \in DOMAIN tab[s]

NoDuplicates(seq) == \A i, j \in 1..Len(seq) : seq[i] = seq[j] => i = j

IsPrefix(a, b) == Len(a) <= Len(b) /\ SubSeq(b, 1, Len(a)) = a

InSeq(x, seq) == \E i \in 1..Len(seq) : seq[i] = x

\* C1: after folding any chronological sequence of snapshots, (source,title) is
\* an identity exactly when some snapshot lists it, and its occurrence count is
\* the number of snapshots that list it: each listing snapshot adds exactly 1,
\* the others add nothing.
C1_OccurrenceCount ==
    \A s \in Sources, t \in Titles :
        /\ IsIdentity(title_info, s, t) <=> Occurrences(s, t) > 0
        /\ IsIdentity(all_results, s, t) <=> Occurrences(s, t) > 0
        /\ IsIdentity(title_info, s, t) => title_info[s][t].count = Occurrences(s, t)

\* Three snapshots, one pair listed by two of them and another pair by one.
C1_Witness ==
    /\ Len(files) = 3
    /\ \E s1, s2 \in Sources, t1, t2 \in Titles :
          /\ IsIdentity(title_info, s1, t1) /\ title_info[s1][t1].count = 2
          /\ IsIdentity(title_info, s2, t2) /\ title_info[s2][t2].count = 1

\* C2: merged_ranks never holds a rank twice, and folding the snapshot that was
\* folded last a second time leaves every merged_ranks list as it was while each
\* pair it lists is counted once more (from 1 to 2 when it is the day's first).
C2_NoDuplicateRanks ==
    /\ [](\A s \in Sources, t \in Titles :
            IsIdentity(title_info, s, t) =>
                /\ NoDuplicates(title_info[s][t].ranks)
                /\ NoDuplicates(all_results[s][t].ranks))
    /\ [][(files # <<>> /\ files' = Append(files, files[Len(files)])) =>
            \A s \in Sources, t \in Titles :
                IsIdentity(title_info, s, t) =>
                    /\ title_info'[s][t].ranks = title_info[s][t].ranks
                    /\ all_results'[s][t].ranks = all_results[s][t].ranks
                    /\ ContainsIn(files, Len(files), s, t) =>
                          /\ title_info'[s][t].count = title_info[s][t].count + 1
                          /\ Len(files) = 1 =>
                                title_info'[s][t].count = 2 * title_info[s][t].count]_vars

\* A snapshot folded twice in a row onto an identity that already has two ranks.
C2_Witness ==
    /\ Len(files) = 3
    /\ files[3] = files[2]
    /\ \E s \in Sources, t \in Titles :
          /\ IsIdentity(title_info, s, t)
          /\ ContainsIn(files, 3, s, t)
          /\ title_info[s][t].count = 3
          /\ Len(title_info[s][t].ranks) = 2

\* C3: at every fold step the old merged_ranks is a prefix of the new one, in
\* both tables, and what is appended is the ranks of the folded snapshot's
\* observation that the identity did not have, in the observation's order.
C3_RanksPrefix ==
    [][\A s \in Sources, t \in Titles :
          IsIdentity(title_info, s, t) =>
              LET old == title_info[s][t].ranks
                  new == title_info'[s][t].ranks
                  n == Len(files')
                  seen == IF ContainsIn(files', n, s, t)
                          THEN files'[n][s][t].ranks ELSE <<>>
              IN /\ IsIdentity(title_info', s, t)
                 /\ IsIdentity(all_results', s, t)
                 /\ old = all_results[s][t].ranks
                 /\ new = all_results'[s][t].ranks
                 /\ IsPrefix(old, new)
                 /\ SubSeq(new, Len(old) + 1, Len(new))
                      = SelectSeq(seen, LAMBDA r : ~InSeq(r, old))]_vars

\* An identity whose ranks were seen in descending order: the list is in
\* first-seen order, not sorted.
C3_Witness ==
    \E s \in Sources, t \in Titles :
        /\ IsIdentity(title_info, s, t)
        /\ Len(title_info[s][t].ranks) = 2
        /\ title_info[s][t].ranks[1] > title_info[s][t].ranks[2]
        /\ title_info[s][t].count = 3

\* C4: in the merged results table and in the title_info table, a non-empty url
\* (mobile url) survives every later fold; an empty one takes the url of the
\* folded snapshot's observation of the pair, if there is one.
Backfilled(old, seen, obs, new) ==
    IF old # "" THEN new = old
    ELSE IF seen THEN new = obs
    ELSE new = ""

C4_UrlNeverOverwritten ==
    [][\A s \in Sources, t \in Titles :
          IsIdentity(title_info, s, t) =>
              LET n == Len(files')
                  seen == ContainsIn(files', n, s, t)
                  url == IF seen THEN files'[n][s][t].url ELSE ""
                  mobile == IF seen THEN files'[n][s][t].mobileUrl ELSE ""
              IN /\ Backfilled(all_results[s][t].url, seen, url, all_results'[s][t].url)
                 /\ Backfilled(title_info[s][t].url, seen, url, title_info'[s][t].url)
                 /\ Backfilled(all_results[s][t].mobileUrl, seen, mobile,
                               all_results'[s][t].mobileUrl)
                 /\ Backfilled(title_info[s][t].mobileUrl, seen, mobile,
                               title_info'[s][t].mobileUrl)]_vars

\* An identity first seen without url, backfilled by the second snapshot and
\* then seen with another url and mobile url by the third.
C4_Witness ==
    /\ Len(files) = 3
    /\ \E s \in Sources, t \in Titles :
          /\ \A i \in 1..3 : ContainsIn(files, i, s, t)
          /\ files[1][s][t].url = "" /\ files[1][s][t].mobileUrl = "m1"
          /\ files[2][s][t].url = "u1" /\ files[2][s][t].mobileUrl = ""
          /\ files[3][s][t].url = "u2" /\ files[3][s][t].mobileUrl = "m2"
          /\ title_info[s][t].url = "u1" /\ all_results[s][t].url = "u1"
          /\ title_info[s][t].mobileUrl = "m1" /\ all_results[s][t].mobileUrl = "m1"

\* C5: with two or more snapshots, a title is in the novelty result of a source
\* exactly when the source is allowed, the newest snapshot lists the title for
\* that source and no older snapshot does; its value is the newest observation,
\* and a source without new titles is no key of the result.
IsNew(s, t) ==
    /\ ContainsIn(files, Len(files), s, t)
    /\ \A i \in 1..(Len(files) - 1) : ~ContainsIn(files, i, s, t)

C5_NoveltyExact ==
    Len(files) >= 2 =>
        \A s \in Sources :
            /\ s \in DOMAIN new_titles <=> \E t \in Titles : IsNew(s, t)
            /\ \A t \in Titles :
                  /\ IsIdentity(new_titles, s, t) <=> IsNew(s, t)
                  /\ IsIdentity(new_titles, s, t) =>
                        new_titles[s][t] = files[Len(files)][s][t]

\* Three snapshots: the newest lists a new title and a title that only the
\* oldest snapshot had, and another allowed source has nothing new.
C5_Witness ==
    /\ Len(files) = 3
    /\ \E s \in Sources, t1, t2 \in Titles :
          /\ IsIdentity(new_titles, s, t1)
          /\ ContainsIn(files, 3, s, t2)
          /\ ContainsIn(files, 1, s, t2)
          /\ ~ContainsIn(files, 2, s, t2)
          /\ ~IsIdentity(new_titles, s, t2)

\* C6: with no snapshot or a single snapshot today the novelty result is empty.
C6_SingleSnapshotNoNovelty ==
    Len(files) < 2 => new_titles = EmptyMap

\* A single snapshot with titles of an allowed source.
C6_Witness ==
    /\ Len(files) = 1
    /\ all_results # EmptyMap
    /\ new_titles = EmptyMap

\* C27: with two or more snapshots, a (source, title) pair is in the novelty
\* result exactly when its merged identity has occurrence count 1 and
\* first_time = last_time = the label of the newest snapshot.
SeenOnlyInNewest(s, t) ==
    /\ IsIdentity(title_info, s, t)
    /\ title_info[s][t].count = 1
    /\ title_info[s][t].first_time = Len(files)
    /\ title_info[s][t].last_time = Len(files)

C27_MergerNoveltyAgree ==
    Len(files) >= 2 =>
        \A s \in Sources, t \in Titles :
            IsIdentity(new_titles, s, t) <=> SeenOnlyInNewest(s, t)

\* Three snapshots: one title is new, a second was seen once in an older
\* snapshot only, and a third returns in the newest snapshot after a gap.
C27_Witness ==
    /\ Len(files) = 3
    /\ \E s \in Sources, t1, t2 \in Titles :
          /\ IsIdentity(new_titles, s, t1) /\ SeenOnlyInNewest(s, t1)
          /\ IsIdentity(title_info, s, t2)
          /\ title_info[s][t2].count = 2
          /\ title_info[s][t2].first_time = 1
          /\ title_info[s][t2].last_time = 3
          /\ ~IsIdentity(new_titles, s, t2)

(***************************************************************************)
(* Properties of the Rule Matcher and the Aggregator.                      *)
(***************************************************************************)

\* The (source, title) pairs handed to the matcher (daily mode: all of them).
Handed == UNION {{<<s, t>> : t \in DOMAIN results[s]} : s \in DOMAIN results}

\* How often the pair is listed in the titles of the stat.
ListedIn(stat, p) ==
    Cardinality({i \in 1..Len(stat.titles) :
                   stat.titles[i].title = p[2] /\ stat.titles[i].source_name = p[1]})

\* How often the pair is listed in the stats with the given word.
ListedUnder(word, p) ==
    LET hits == {i \in 1..Len(stats) : stats[i].word = word /\ ListedIn(stats[i], p) > 0}
    IN IF hits = {} THEN 0
       ELSE IF Cardinality(hits) = 1 THEN ListedIn(stats[CHOOSE i \in hits : TRUE], p)
       ELSE 2

ListedAnywhere(p) == \E i \in 1..Len(stats) : ListedIn(stats[i], p) > 0

RECURSIVE SumCounts(_)
SumCounts(list) == IF list = <<>> THEN 0 ELSE Head(list).count + SumCounts(Tail(list))

\* The title contains the word, letter case aside.
HasWord(title, word) == IsSubstring(lower(word), lower(title))

Rejected(title) == \E i \in 1..Len(filter_words) : HasWord(title, filter_words[i])

\* The rule of a keyword group, as the rule is stated.
RuleHolds(group, title) ==
    /\ group.required = <<>> \/ \A i \in 1..Len(group.required) : HasWord(title, group.required[i])
    /\ group.normal = <<>> \/ \E i \in 1..Len(group.normal) : HasWord(title, group.normal[i])

\* C7: with configured groups, a title the global filter does not reject is
\* listed once under the key of the first group, in configured order, whose
\* rule it satisfies and under no other key, whichever later groups it
\* satisfies too; a title that satisfies no group is listed in no stat.
C7_FirstMatchWins ==
    word_groups # <<>> =>
        \A p \in Handed :
            ~Rejected(p[2]) =>
                LET hits == {i \in 1..Len(word_groups) : RuleHolds(word_groups[i], p[2])}
                    first == CHOOSE i \in hits : \A j \in hits : i <= j
                IN IF hits = {} THEN ~ListedAnywhere(p)
                   ELSE /\ ListedUnder(word_groups[first].group_key, p) = 1
                        /\ \A i \in 1..Len(stats) :
                              stats[i].word # word_groups[first].group_key =>
                                  ListedIn(stats[i], p) = 0

\* Two groups with different keys that a title both satisfies, and a title of
\* the same table that satisfies no group.
C7_Witness ==
    /\ Len(word_groups) = 2
    /\ word_groups[1].group_key # word_groups[2].group_key
    /\ \E p, q \in Handed :
          /\ ~Rejected(p[2])
          /\ RuleHolds(word_groups[1], p[2]) /\ RuleHolds(word_groups[2], p[2])
          /\ Len(word_groups[1].required) = 2
          /\ ListedUnder(word_groups[1].group_key, p) = 1
          /\ ~Rejected(q[2])
          /\ ~RuleHolds(word_groups[1], q[2]) /\ ~RuleHolds(word_groups[2], q[2])
          /\ ~ListedAnywhere(q)

\* C8: with configured groups, a title that contains a global filter word,
\* letter case aside, is rejected by matches_word_groups and listed in no stat,
\* and no stat counts it.
C8_GlobalFilterRejects ==
    word_groups # <<>> =>
        /\ \A p \in Handed :
              Rejected(p[2]) =>
                  /\ ~matches_word_groups(p[2], word_groups, filter_words)
                  /\ ~ListedAnywhere(p)
        /\ SumCounts(stats) <= Cardinality({p \in Handed : ~Rejected(p[2])})

\* A title that differs in letter case from the filter word it contains and
\* that satisfies the first group.
C8_Witness ==
    /\ word_groups # <<>>
    /\ \E p \in Handed :
          /\ Rejected(p[2])
          /\ \A i \in 1..Len(filter_words) : ~IsSubstring(filter_words[i], p[2])
          /\ RuleHolds(word_groups[1], p[2])
          /\ ~ListedAnywhere(p)

\* The groups and the filter words count_word_frequency hands to the matcher.
EffectiveGroups == IF word_groups = <<>> THEN <<CatchAllGroup>> ELSE word_groups
EffectiveFilters == IF word_groups = <<>> THEN <<>> ELSE filter_words

\* C9: matches_word_groups is true of a title handed to the matcher exactly when
\* the grouping loop lists the title once, in one stat; every stat counts what
\* it lists, so the counts add up to the number of titles the predicate is
\* true of.
C9_PredicateAgreesWithGrouping ==
    /\ \A p \in Handed :
          LET listed == {i \in 1..Len(stats) : ListedIn(stats[i], p) > 0}
          IN IF matches_word_groups(p[2], EffectiveGroups, EffectiveFilters)
             THEN /\ Cardinality(listed) = 1
                  /\ \A i \in listed : ListedIn(stats[i], p) = 1
             ELSE listed = {}
    /\ \A i \in 1..Len(stats) : stats[i].count = Len(stats[i].titles)
    /\ SumCounts(stats)
         = Cardinality({p \in Handed :
                          matches_word_groups(p[2], EffectiveGroups, EffectiveFilters)})

\* A table with a title the predicate is true of and a title that satisfies a
\* group but is rejected by the filter.
C9_Witness ==
    /\ word_groups # <<>>
    /\ \E p, q \in Handed :
          /\ matches_word_groups(p[2], EffectiveGroups, EffectiveFilters)
          /\ ListedAnywhere(p)
          /\ Rejected(q[2])
          /\ \E i \in 1..Len(word_groups) : RuleHolds(word_groups[i], q[2])
          /\ ~ListedAnywhere(q)
          /\ SumCounts(stats) = 1

\* C10: with an empty group list the result is the single catch-all stat, every
\* title handed to the matcher is listed in it, and its count is
\* total_titles_processed.
C10_EmptyRulesetCountsAll ==
    word_groups = <<>> =>
        /\ Len(stats) = 1
        /\ stats[1].word = ALL_NEWS_KEY
        /\ \A p \in Handed : ListedIn(stats[1], p) = 1
        /\ stats[1].count = total_titles

(***************************************************************************)
(* Properties of the Mode Selector.                                        *)
(***************************************************************************)

\* The (source, title) pairs of a table.
Identities(tab) == UNION {{<<s, t>> : t \in DOMAIN tab[s]} : s \in DOMAIN tab}

\* The places <<stat, item>> of a GroupStat list that list the pair.
Listings(list, p) ==
    UNION {{<<i, j>> : j \in {j \in 1..Len(list[i].titles) :
                                /\ list[i].titles[j].source_name = p[1]
                                /\ list[i].titles[j].title = p[2]}} :
             i \in 1..Len(list)}

\* All the items of a GroupStat list.
AllItems(list) == UNION {{list[i].titles[j] : j \in 1..Len(list[i].titles)} : i \in 1..Len(list)}

\* The title passes the configured rules: no filter word rejects it and it
\* satisfies a group; without groups every title passes.
Accepted(title) ==
    \/ word_groups = <<>>
    \/ /\ ~Rejected(title)
       /\ \E i \in 1..Len(word_groups) : RuleHolds(word_groups[i], title)

\* The list has the pairs of `handed` that the rules accept, once each, and
\* nothing else.
ListsExactly(list, handed) ==
    /\ \A it \in AllItems(list) : <<it.source_name, it.title>> \in handed
    /\ \A p \in handed :
          Cardinality(Listings(list, p)) = (IF Accepted(p[2]) THEN 1 ELSE 0)

\* The item carries the merged history of its identity.
CarriesHistory(it) ==
    LET id == title_info[it.source_name][it.title]
    IN /\ it.ranks = id.ranks
       /\ it.count = id.count
       /\ it.first_time = id.first_time
       /\ it.last_time = id.last_time

\* The example of the day with two snapshots: 0800 = {S: {Title A: [3]}} and
\* 0900 = {S: {Title A: [1], Title B: [5]}}, one group with normal = [Title].
ExampleDay ==
    LET obs(r) == [ranks |-> <<r>>, url |-> "", mobileUrl |-> ""]
        A == <<"T", "A">>
        B == <<"T", "B">>
        fs == << [S |-> (A :> obs(3))], [S |-> (A :> obs(1)) @@ (B :> obs(5))] >>
        tabs == read_all_today_titles(fs, {"S"})
    IN count_word_frequency(tabs.all_results, <<MakeGroup(<<>>, << <<"T">> >>, 0)>>, <<>>,
                            tabs.title_info, detect_latest_new_titles(fs, {"S"}), "daily",
                            is_first_crawl_today(fs), RANK_THRESHOLD, DefaultConfig).stats

C12_IncrementalOnlyNew ==
    (report_mode = "incremental" /\ files # <<>>) =>
        LET handed == IF Len(files) = 1 THEN Identities(title_info)
                      ELSE Identities(new_titles)
        IN /\ total_titles = Cardinality(handed)
           /\ ListsExactly(stats, handed)
           /\ \A it \in AllItems(stats) : it.is_new

\* A second run whose snapshot has a new title, which is listed, and a title
\* the rules accept that an older snapshot had, which is not.
C12_Witness ==
    /\ report_mode = "incremental"
    /\ Len(files) = 2
    /\ \E it \in AllItems(stats) : it.is_new
    /\ \E p \in Identities(files[2]) :
          /\ Accepted(p[2])
          /\ p \notin Identities(new_titles)
          /\ Listings(stats, p) = {}

\* The identities whose last_time is the greatest last_time of the day.
LatestBatch ==
    LET ids == Identities(title_info)
        last(p) == title_info[p[1]][p[2]].last_time
    IN {p \in ids : \A q \in ids : last(q) <= last(p)}

\* C13: in current mode the merged table is the input, the identities handed to
\* the matcher are exactly those whose last_time is the maximum last_time over
\* all identities, and every listed item has the merged ranks, the occurrence
\* count and the first_time of its identity; the summary report of the mode is
\* the same analysis.
C13_CurrentLatestBatch ==
    (report_mode = "current" /\ files # <<>>) =>
        /\ results = all_results
        /\ total_titles = Cardinality(LatestBatch)
        /\ ListsExactly(stats, LatestBatch)
        /\ \A it \in AllItems(stats) : CarriesHistory(it)
        /\ summary_stats = stats
        /\ summary_total = total_titles

\* The newest snapshot lists a title again, at another rank than the first
\* snapshot did, and lacks an accepted title of an older snapshot.
C13_Witness ==
    /\ report_mode = "current"
    /\ Len(files) = 3
    /\ \E it \in AllItems(stats) :
          /\ it.count = 2 /\ Len(it.ranks) = 2
          /\ it.first_time = 1 /\ it.last_time = 3
    /\ \E p \in Identities(title_info) :
          /\ Accepted(p[2])
          /\ p \notin LatestBatch
          /\ Listings(stats, p) = {}

\* C14: in current mode every listed item is marked new when today has exactly
\* one snapshot; otherwise an item is marked new exactly when the novelty
\* result of its source has its title.
C14_CurrentIsNew ==
    (report_mode = "current" /\ files # <<>>) =>
        \A it \in AllItems(stats) :
            IF Len(files) = 1 THEN it.is_new
            ELSE it.is_new <=> IsIdentity(new_titles, it.source_name, it.title)

(***************************************************************************)
(* Properties of the Weight Scorer.                                        *)
(***************************************************************************)

\* The sum of f[1] .. f[n].
RECURSIVE SumTo(_, _)
SumTo(f, n) == IF n = 0 THEN 0 ELSE f[n] + SumTo(f, n - 1)

\* |R| times the score of the rank list R (not empty), the occurrence count C
\* and the threshold T, in tenths: the weights are 0.6, 0.3 and 0.1.
FormulaTimesLen(R, C, T) ==
    LET points == [k \in 1..Len(R) |-> 11 - (IF R[k] < 10 THEN R[k] ELSE 10)]
        hot == Cardinality({k \in 1..Len(R) : R[k] <= T})
        freq == (IF C < 10 THEN C ELSE 10) * 10
    IN 6 * SumTo(points, Len(R)) + 3 * freq * Len(R) + 1 * 100 * hot

\* The weight is the score of the formula for the rank list R.
IsFormula(weight, R, C, T) == weight.num * Len(R) = FormulaTimesLen(R, C, T) * weight.den

\* C15, as claimed: every call of the scorer returns the score of the formula,
\* an empty rank list counting as [99].
C15_ScoreFormula ==
    \A i \in 1..Len(scored) :
        IsFormula(weights[i],
                  IF scored[i].ranks = <<>> THEN <<99>> ELSE scored[i].ranks,
                  scored[i].count, RANK_THRESHOLD)

\* C15, amended: a call with a rank list that is not empty returns the score of
\* the formula; a call with an empty rank list returns 0.
C15_ScoreFormulaNonEmpty ==
    \A i \in 1..Len(scored) :
        IF scored[i].ranks = <<>> THEN weights[i].num = 0
        ELSE IsFormula(weights[i], scored[i].ranks, scored[i].count, RANK_THRESHOLD)

\* A record with a rank within the threshold and a rank beyond 10, seen more
\* than 10 times: 0.6 * 5.5 + 0.3 * 100 + 0.1 * 50 = 38.3; and a record
\* without ranks.
C15_Witness ==
    /\ Len(scored) = 2
    /\ scored[1] = [ranks |-> <<1, 99>>, count |-> 11]
    /\ weights[1].num = 383 * weights[1].den
    /\ scored[2].ranks = <<>>
    /\ weights[2].num = 0

\* weight i >= weight j
AtLeast(wi, wj) == wi.num * wj.den >= wj.num * wi.den

\* C16, as claimed: of two records with the same occurrence count, the one
\* whose least rank is not greater has a score that is not less.
C16_ScoreMonotoneInMinRank ==
    \A i, j \in 1..Len(scored) :
        (/\ scored[i].count = scored[j].count
         /\ scored[i].ranks # <<>> /\ scored[j].ranks # <<>>
         /\ MinSeq(scored[i].ranks) <= MinSeq(scored[j].ranks))
            => AtLeast(weights[i], weights[j])

\* C16, amended: of two records with the same occurrence count and rank lists
\* of the same length, the one whose ranks are position by position not greater
\* has a score that is not less; so for single ranks the score never increases
\* with the rank.
C16_ScoreMonotonePointwise ==
    \A i, j \in 1..Len(scored) :
        (/\ scored[i].count = scored[j].count
         /\ scored[i].ranks # <<>>
         /\ Len(scored[i].ranks) = Len(scored[j].ranks)
         /\ \A k \in 1..Len(scored[i].ranks) : scored[i].ranks[k] <= scored[j].ranks[k])
            => AtLeast(weights[i], weights[j])

\* Two single ranks on either side of the threshold, and the strictly greater
\* score of the smaller rank.
C16_Witness ==
    /\ Len(scored) = 2
    /\ scored[1] = [ranks |-> <<5>>, count |-> 1]
    /\ scored[2] = [ranks |-> <<6>>, count |-> 1]
    /\ AtLeast(weights[1], weights[2])
    /\ ~AtLeast(weights[2], weights[1])

(***************************************************************************)
(* Properties of the Aggregator: order and cap of a group's titles.        *)
(***************************************************************************)

\* The least rank of a rank list.
LeastRank(R) == CHOOSE r \in {R[k] : k \in 1..Len(R)} : \A k \in 1..Len(R) : r <= R[k]

\* The score of the formula of an item or identity, as a fraction.
ScoreOf(it) ==
    [num |-> FormulaTimesLen(it.ranks, it.count, RANK_THRESHOLD), den |-> Len(it.ranks)]

\* The key (-score, least rank, -count) of a is lexicographically at most that
\* of b.
KeyAtMost(a, b) ==
    LET sa == ScoreOf(a)
        sb == ScoreOf(b)
    IN \/ ~AtLeast(sb, sa)
       \/ /\ AtLeast(sa, sb)
          /\ \/ LeastRank(a.ranks) < LeastRank(b.ranks)
             \/ LeastRank(a.ranks) = LeastRank(b.ranks) /\ a.count >= b.count

\* C17: in every GroupStat an item placed before another has a key
\* (-score, least rank, -count) that is lexicographically at most the other's.
C17_TitlesSorted ==
    \A i \in 1..Len(summary_stats) :
        \A j, k \in 1..Len(summary_stats[i].titles) :
            j < k => KeyAtMost(summary_stats[i].titles[j], summary_stats[i].titles[k])

\* A group of three titles of one score: the first before the second by its
\* least rank, the second before the third by its count.
C17_Witness ==
    /\ \E i \in 1..Len(summary_stats) :
          LET ts == summary_stats[i].titles
          IN /\ Len(ts) = 3
             /\ AtLeast(ScoreOf(ts[3]), ScoreOf(ts[1]))
             /\ LeastRank(ts[1].ranks) < LeastRank(ts[2].ranks)
             /\ LeastRank(ts[2].ranks) = LeastRank(ts[3].ranks)
             /\ ts[2].count > ts[3].count

\* The group the title is counted in: the first group whose rule it satisfies
\* (0: none); the catch-all stands for an empty group list.
GroupOf(title) ==
    IF word_groups = <<>> THEN 1
    ELSE LET hits == {i \in 1..Len(word_groups) : RuleHolds(word_groups[i], title)}
         IN IF hits = {} THEN 0 ELSE CHOOSE i \in hits : \A j \in hits : i <= j

\* The identities of the day counted in group g, as items.
MatchesOf(g) ==
    {[title |-> p[2], source_name |-> p[1], ranks |-> title_info[p[1]][p[2]].ranks,
      count |-> title_info[p[1]][p[2]].count] :
        p \in {q \in Identities(title_info) : GroupOf(q[2]) = g}}

\* What an item of a stat says of its identity.
Brief(it) == [title |-> it.title, source_name |-> it.source_name, ranks |-> it.ranks,
              count |-> it.count]

\* C18: the titles of a group are the first k of its sorted matches, k being
\* the group's max_count if > 0, else MAX_NEWS_PER_KEYWORD if > 0, else the
\* number of matches: as many items as that, each a match and none twice, in
\* sorted order, no dropped match with a key that goes strictly before a kept
\* one's; the count of the stat is the number of matches before the cut.
C18_CapAfterSort ==
    title_info # EmptyMap =>
        \A i \in 1..Len(summary_stats) :
            LET g == summary_stats[i].position + 1
                own == IF word_groups = <<>> THEN 0 ELSE word_groups[g].max_count
                cap == IF own > 0 THEN own
                       ELSE IF config.MAX_NEWS_PER_KEYWORD > 0 THEN config.MAX_NEWS_PER_KEYWORD
                       ELSE 0
                matches == MatchesOf(g)
                ts == summary_stats[i].titles
                kept == {Brief(ts[j]) : j \in 1..Len(ts)}
            IN /\ summary_stats[i].count = Cardinality(matches)
               /\ Len(ts) = (IF cap > 0 /\ cap < Cardinality(matches)
                             THEN cap ELSE Cardinality(matches))
               /\ Cardinality(kept) = Len(ts)
               /\ kept \subseteq matches
               /\ \A a \in kept, d \in matches \ kept : KeyAtMost(a, d)
               /\ \A j, k \in 1..Len(ts) : j < k => KeyAtMost(ts[j], ts[k])

\* A global cap of 1 and a group with its own cap of 2: three matches, of which
\* the two with the greater scores are kept.
C18_Witness ==
    /\ config.MAX_NEWS_PER_KEYWORD = 1
    /\ Len(word_groups) = 1
    /\ word_groups[1].max_count = 2
    /\ Len(summary_stats) = 1
    /\ summary_stats[1].count = 3
    /\ Len(summary_stats[1].titles) = 2
    /\ \E d \in MatchesOf(1) :
          /\ \A j \in 1..2 : Brief(summary_stats[1].titles[j]) # d
          /\ ~AtLeast(ScoreOf(d), ScoreOf(summary_stats[1].titles[2]))

(***************************************************************************)
(* Properties of the Aggregator: total_titles_processed and percentage.    *)
(***************************************************************************)

\* The identities the analysis of the run's report mode selects.
SelectedByMode ==
    IF report_mode = "current" THEN LatestBatch
    ELSE IF report_mode = "incremental" /\ Len(files) > 1 THEN Identities(new_titles)
    ELSE Identities(results)

\* The identities the summary report selects.
SelectedBySummary ==
    IF report_mode = "current" THEN LatestBatch ELSE Identities(title_info)

\* percentage is count / total * 100 to the two decimals the code rounds to
\* (kept in hundredths), and 0 when the total is 0.
IsPercentage(stat, total) ==
    IF total = 0 THEN stat.percentage = 0
    ELSE LET d == stat.percentage * total - stat.count * 10000
         IN 2 * d <= total /\ -2 * d <= total

\* C19: total_titles_processed is the number of identities selected for the
\* mode, whether or not a group takes them or a filter word rejects them; the
\* percentage of every stat is count / total_titles_processed * 100 (0 when the
\* total is 0); the counts of the stats add up to at most the total.
C19_TotalCountsHanded ==
    files # <<>> =>
        /\ total_titles = Cardinality(SelectedByMode)
        /\ summary_total = Cardinality(SelectedBySummary)
        /\ \A i \in 1..Len(stats) : IsPercentage(stats[i], total_titles)
        /\ \A i \in 1..Len(summary_stats) : IsPercentage(summary_stats[i], summary_total)
        /\ SumCounts(stats) <= total_titles
        /\ SumCounts(summary_stats) <= summary_total

\* Three identities of which a filter word rejects one: the total is 3 and the
\* group has 2 of them, 66.67 percent; the run's own analysis, of a second
\* snapshot whose one new title is the rejected one, has a total of 1 and a
\* count of 0.
C19_Witness ==
    /\ report_mode = "incremental"
    /\ filter_words # <<>>
    /\ summary_total = 3
    /\ Len(summary_stats) = 1
    /\ summary_stats[1].count = 2
    /\ summary_stats[1].percentage = 6667
    /\ Len(files) = 2
    /\ \E p \in Identities(new_titles) : Rejected(p[2])
    /\ total_titles = 1
    /\ stats[1].count = 0
    /\ stats[1].percentage = 0

(***************************************************************************)
(* Properties of the Snapshot Codec.                                       *)
(***************************************************************************)

\* the display name a source is saved under
DisplayName(names, id) == IF id \in DOMAIN names /\ names[id] # "" THEN names[id] ELSE id

\* C20: parse_file_titles is the exact inverse of save_titles_to_file: parsing
\* the written file of a fetch result and a display-name mapping yields the
\* same set of source ids with the same display names and, for every title,
\* the same ranks, url and mobile url.
C20_RoundTrip ==
    parsed # EmptyMap =>
        /\ DOMAIN parsed.titles_by_id = DOMAIN results
        /\ DOMAIN parsed.id_to_name = DOMAIN results
        /\ \A s \in DOMAIN results :
              /\ parsed.id_to_name[s] = DisplayName(id_to_name, s)
              /\ DOMAIN parsed.titles_by_id[s] = DOMAIN results[s]
              /\ \A t \in DOMAIN results[s] :
                    /\ parsed.titles_by_id[s][t].ranks = results[s][t].ranks
                    /\ parsed.titles_by_id[s][t].url = results[s][t].url
                    /\ parsed.titles_by_id[s][t].mobileUrl = results[s][t].mobileUrl

\* the title lines of the block save_titles_to_file wrote for a source
BlockLines(file, id) ==
    LET sections == SplitSections(file, <<>>)
        own == {i \in 1..Len(sections) :
                  /\ sections[i] # <<>>
                  /\ sections[i][1] # <<FAILED_BANNER>>
                  /\ HeaderId(sections[i][1]).source_id = id}
    IN IF own = {} THEN <<>> ELSE Tail(sections[CHOOSE i \in own : TRUE])

\* C21: within each source block written by save_titles_to_file, the title
\* lines appear in ascending order of each title's lowest rank, for every
\* rank list a title carries in the fetch result.
C21_AscendingLowestRank ==
    written # <<>> =>
        \A s \in DOMAIN results :
            LET lines == BlockLines(written, s)
                lowest == [i \in 1..Len(lines) |-> MinSeq(results[s][ParseLine(lines[i]).title].ranks)]
            IN /\ Len(lines) = Cardinality(DOMAIN results[s])
               /\ \A i, j \in 1..Len(lines) : i < j => lowest[i] <= lowest[j]

\* a file without the lines whose parse raises
WithoutMalformed(file) == SelectSeq(file, LAMBDA line : ~LineRaises(line))

\* the tables the day gives when every malformed line is taken out of its file
TablesWithoutMalformed ==
    read_all_today_titles([k \in 1..Len(txt_dir) |->
                              parse_file_titles(WithoutMalformed(txt_dir[k])).titles_by_id],
                          current_platform_ids)

\* C22: a line whose parse fails is skipped alone: every other line of its
\* block, every later block of the file and every later file of the day is
\* parsed, and the merged identities are those of the day without the
\* malformed lines.
C22_MalformedLineIsolated ==
    /\ Identities(all_results) = Identities(TablesWithoutMalformed.all_results)
    /\ Identities(title_info) = Identities(TablesWithoutMalformed.title_info)
    /\ \A p \in Identities(title_info) :
          /\ title_info[p[1]][p[2]] = TablesWithoutMalformed.title_info[p[1]][p[2]]
          /\ all_results[p[1]][p[2]] = TablesWithoutMalformed.all_results[p[1]][p[2]]

\* The first file has a malformed line before a well-formed line of block A
\* and a block of B after it, the second file opens with a malformed line;
\* the lines after them are merged.
C22_Witness ==
    /\ Len(txt_dir) = 2
    /\ LineRaises(txt_dir[1][2]) /\ ~LineRaises(txt_dir[1][3])
    /\ Len(txt_dir[1]) = 7 /\ ~LineRaises(txt_dir[1][6])
    /\ LineRaises(txt_dir[2][2])
    /\ "A" \in DOMAIN title_info /\ <<"x">> \in DOMAIN title_info["A"]
    /\ title_info["A"][<<"x">>].count = 2
    /\ "B" \in DOMAIN title_info /\ <<"x">> \in DOMAIN title_info["B"]

(***************************************************************************)
(* Properties of the keyword-rule parser.                                  *)
(***************************************************************************)

\* the words of a group of the file that carry the prefix, without it
Prefixed(sec, prefix) ==
    LET hits == SelectSeq(GroupWords(sec), LAMBDA w : w[1] = prefix)
    IN [i \in 1..Len(hits) |-> Tail(hits[i])]

\* the bare words of a group of the file
Bare(sec) == SelectSeq(GroupWords(sec), LAMBDA w : w[1] \notin {"@", "!", "+"})

\* the last @N with N > 0 of a group of the file, else 0
LastPositive(sec) ==
    LET words == GroupWords(sec)
        hits == {i \in 1..Len(words) :
                   /\ words[i][1] = "@"
                   /\ IsDecimal(Tail(words[i]))
                   /\ ToInt(Tail(words[i])) > 0}
    IN IF hits = {} THEN 0
       ELSE ToInt(Tail(words[CHOOSE i \in hits : \A j \in hits : j <= i]))

\* the groups of the file that have a required or a normal word, in file order
KeptSections(file) ==
    SelectSeq(SplitSections(file, <<>>),
              LAMBDA sec : Prefixed(sec, "+") # <<>> \/ Bare(sec) # <<>>)

\* the !words of every group of the file
AllFilters(file) ==
    LET sections == SplitSections(file, <<>>)
    IN Concat([i \in 1..Len(sections) |-> Prefixed(sections[i], "!")])

\* C23: load_frequency_words returns, in file order, exactly the
\* blank-line-separated groups with a required or a normal word; a group's
\* max_count is its last @N with N > 0, else 0, an invalid @ line being no
\* word; every !word of every group, dropped groups included, is in the
\* global filter list.
C23_RulesParsed ==
    frequency_file # <<>> =>
        LET kept == KeptSections(frequency_file)
        IN /\ Len(word_groups) = Len(kept)
           /\ \A k \in 1..Len(kept) :
                 /\ word_groups[k].required = Prefixed(kept[k], "+")
                 /\ word_groups[k].normal = Bare(kept[k])
                 /\ word_groups[k].max_count = LastPositive(kept[k])
           /\ filter_words = AllFilters(frequency_file)

\* A dropped group that holds a filter word, then a kept group with a maximum.
C23_Witness ==
    /\ frequency_file = << <<"!", "c">>, <<>>, <<"@", "2">>, <<"a">> >>
    /\ word_groups = <<MakeGroup(<<>>, << <<"a">> >>, 2)>>
    /\ filter_words = << <<"c">> >>

(***************************************************************************)
(* Properties of NewsAnalyzer.run.                                         *)
(***************************************************************************)

\* C24: empty input is not fatal: with no snapshot today, or when the mode
\* selects no identity, run does not raise and ends with empty results.
C24_EmptyInputNotFatal == raised = ""

\* C28: for a non-empty configured group list count_word_frequency returns
\* one stat per group: as many stats as groups, positions exactly 0..n-1
\* without repeats, and every title of a stat assigned to the group at the
\* stat's position.
C28_OneStatPerGroup ==
    (word_groups # <<>> /\ results # EmptyMap) =>
        /\ Len(stats) = Len(word_groups)
        /\ {stats[i].position : i \in 1..Len(stats)} = 0..(Len(word_groups) - 1)
        /\ \A i, j \in 1..Len(stats) : stats[i].position = stats[j].position => i = j
        /\ \A i \in 1..Len(stats) : \A k \in 1..Len(stats[i].titles) :
              AssignedGroup(stats[i].titles[k].title, word_groups, filter_words)
                  = stats[i].position + 1

(***************************************************************************)
(* Properties of the llm_analysis mode.                                    *)
(***************************************************************************)

\* the fields of a stat of count_word_frequency (statistics.py 449-461) and
\* of a title record in it (statistics.py 344-358)
GroupStatFields == {"word", "count", "percentage", "position", "titles"}

TitleRecordFields ==
    {"title", "source_name", "first_time", "last_time", "time_display", "count", "ranks",
     "rank_threshold", "url", "mobileUrl", "is_new"}

\* C25: every stat of _convert_llm_groups_to_stats has the fields of a stat
\* of count_word_frequency (word, count, percentage, position, titles) and
\* every title record in it the fields of a keyword title record (url,
\* mobileUrl, ranks, count, is_new, time_display among them).
C25_SameGroupStatShape ==
    results # EmptyMap =>
        \A g \in 1..Len(stats) :
            /\ DOMAIN stats[g] = GroupStatFields
            /\ \A i \in 1..Len(stats[g].titles) :
                  DOMAIN stats[g].titles[i] = TitleRecordFields

(***************************************************************************)
(* Properties of configuration loading.                                    *)
(***************************************************************************)

HasContent(st) ==
    \/ \E i \in 1..Len(st) : st[i].count > 0
    \/ Identities(new_titles) # {}

\* C29: a run calls send_to_notifications at most once; in a mode that sends
\* in real time the summary step sends nothing, in the other modes only the
\* summary step sends; and a call is made only with notifications enabled,
\* a channel configured and content in the stats it carries.
C29_AtMostOneNotification ==
    /\ Len(sends) <= 1
    /\ \A i \in 1..Len(sends) :
          /\ sends[i] = IF should_send_realtime(report_mode) THEN "realtime" ELSE "summary"
          /\ run_config.ENABLE_NOTIFICATION
          /\ run_config.has_notification
          /\ HasContent(IF sends[i] = "realtime" THEN stats ELSE summary_stats)

\* A run in a real-time mode that notified once although its summary, which
\* only became HTML, has matched news as well.
C29_Witness ==
    /\ sends = <<"realtime">>
    /\ should_generate_summary(report_mode)
    /\ \E i \in 1..Len(summary_stats) : summary_stats[i].count > 0

(***************************************************************************)
(* Properties of the push records.                                         *)
(***************************************************************************)

\* C30: once cleanup_old_records has run, no record file is left whose day
\* lies more than RECORD_RETENTION_DAYS days before the current day, and
\* cleanup removes no file within the retention period.
C30_ExpiredRecordsRemoved ==
    /\ [](manager_ready =>
            \A d \in record_dir : ~Expired(d, beijing_day, RECORD_RETENTION_DAYS))
    /\ [][NewPushRecordManager =>
            \A d \in record_dir :
                ~Expired(d, beijing_day, RECORD_RETENTION_DAYS) => d \in record_dir']_vars

====
